---- MODULE Spec2Model ----
(***************************************************************************)
(* FLV demuxer of xgplayer-transmuxer (FlvDemuxer) as a state machine.     *)
(*                                                                         *)
(* A byte buffer (Uint8Array) is a sequence of numbers 0..255; the code's  *)
(* 0-based data[i] is At(data, i).  A read past the end of a typed array   *)
(* gives undefined, modelled by Undef; the bit operators of JavaScript     *)
(* turn undefined into 0 (ToInt).                                          *)
(***************************************************************************)
EXTENDS Integers, Sequences, FiniteSets, TLC

\* ------------------------------------------------------------------------
\* Bytes
\* ------------------------------------------------------------------------

\* data[i] outside the array
Undef == -1

\* data[i], 0-based
At(data, i) == IF i >= 0 /\ i < Len(data) THEN data[i + 1] ELSE Undef

\* the number a bit operator sees: undefined becomes 0
ToInt(b) == IF b = Undef THEN 0 ELSE b

\* data.subarray(from, to): both ends clamped to the array
Subarray(data, from, to) ==
  LET lo == IF from > Len(data) THEN Len(data) ELSE from
      hi == IF to > Len(data) THEN Len(data) ELSE to
  IN  IF hi <= lo THEN <<>> ELSE SubSeq(data, lo + 1, hi)

\* data.subarray(from)
SubarrayFrom(data, from) == Subarray(data, from, Len(data))

\* a & b on non-negative numbers
RECURSIVE BitAnd(_, _)
BitAnd(a, b) ==
  IF a = 0 \/ b = 0 THEN 0
  ELSE (a % 2) * (b % 2) + 2 * BitAnd(a \div 2, b \div 2)

concatUint8ArrayNewFirst(a, b) == b \o a

\* concatUint8Array(a, b): a new array holding a then b
concatUint8Array(a, b) == a \o b

\* (data[i] << 16) | (data[i+1] << 8) | data[i+2]
Bits24(data, i) ==
  ToInt(At(data, i)) * 65536 + ToInt(At(data, i + 1)) * 256 + ToInt(At(data, i + 2))

\* the 24 bits taken as they are, as an unsigned number
SignExtend24None(v) == v

\* (v << 8) >> 8 on a 24-bit v: the shift left wraps to a signed 32-bit number,
\* the arithmetic shift right divides it by 256 rounding down
SignExtend24(v) ==
  LET shl == IF v >= 8388608 THEN (v - 16777216) * 256 ELSE v * 256
  IN  shl \div 256

\* x << k on a non-negative x and 0 < k < 32: the low 32 - k bits of x go up by
\* k, the rest is lost, and the result is a signed 32-bit number
ShiftLeft(x, k) ==
  IF (x % 2^(32 - k)) >= 2^(31 - k)
  THEN ((x % 2^(32 - k)) - 2^(32 - k)) * 2^k
  ELSE (x % 2^(32 - k)) * 2^k

\* A number of JavaScript that needs more than 31 bits is held as two halves:
\* it is hi * 65536 + lo, with lo in 0..65535

\* the signed 32-bit number left as it is, without >>> 0
Uint32Signed(x) == [hi |-> x \div 65536, lo |-> x % 65536]

\* x >>> 0 on a signed 32-bit x: the same 32 bits read as an unsigned number
Uint32(x) ==
  [hi |-> IF x < 0 THEN (x \div 65536) + 65536 ELSE x \div 65536, lo |-> x % 65536]

\* w + n, exact as the + of JavaScript is on numbers of this size
Plus(w, n) ==
  [hi |-> w.hi + (n \div 65536) + ((w.lo + (n % 65536)) \div 65536),
   lo |-> (w.lo + (n % 65536)) % 65536]

\* the number of two halves as one number, where it has less than 32 bits
Narrow(w) == w.hi * 65536 + w.lo

\* the two halves of a number of less than 32 bits
Wide(n) == [hi |-> n \div 65536, lo |-> n % 65536]

\* w >= n
AtLeast(w, n) == w.hi > Wide(n).hi \/ (w.hi = Wide(n).hi /\ w.lo >= Wide(n).lo)

\* readBig32(data, i), in two halves:
\* (data[i] << 24 >>> 0) + (data[i+1] << 16) + (data[i+2] << 8) + (data[i+3] || 0)
readBig32(data, i) ==
  Plus(Plus(Plus(Uint32(ShiftLeft(ToInt(At(data, i)), 24)),
                 ShiftLeft(ToInt(At(data, i + 1)), 16)),
            ShiftLeft(ToInt(At(data, i + 2)), 8)),
       ToInt(At(data, i + 3)))

\* ------------------------------------------------------------------------
\* Tracks and samples (../model)
\* ------------------------------------------------------------------------

\* new VideoTrack(): no parameter sets, 4-byte NAL length prefix, not present
NewVideoTrack ==
  [present |-> FALSE, codecType |-> "avc", codec |-> "", hvcC |-> <<>>,
   sps |-> <<>>, pps |-> <<>>, vps |-> <<>>, nalUnitSize |-> 4,
   samples |-> <<>>, warnings |-> <<>>, timescale |-> 0, formatTimescale |-> 0]

\* new AudioTrack()
NewAudioTrack ==
  [present |-> FALSE, codecType |-> "aac", codec |-> "", sampleRate |-> 0,
   sampleSize |-> 0, channelCount |-> 0, config |-> <<>>, objectType |-> 0,
   sampleRateIndex |-> 0,
   samples |-> <<>>, warnings |-> <<>>, timescale |-> 0, formatTimescale |-> 0]

\* new MetadataTrack()
NewMetadataTrack ==
  [seiSamples |-> <<>>, flvScriptSamples |-> <<>>, timescale |-> 0]

\* videoTrack.reset(): parameter sets, codec fields, samples and warnings go back
\* to their initial values; present is what the FLV header advertised and stays
VideoTrackReset(track) == [NewVideoTrack EXCEPT !.present = track.present]

\* audioTrack.reset()
AudioTrackReset(track) == [NewAudioTrack EXCEPT !.present = track.present]

\* metadataTrack.reset()
MetadataTrackReset(track) == NewMetadataTrack

\* track.exist(): the track is marked present in the FLV header
TrackExist(track) == track.present

\* track.hasSample()
TrackHasSample(track) == Len(track.samples) > 0

\* new VideoSample(pts, dts, units): not a keyframe, no gop yet
NewVideoSample(pts, dts, units) ==
  [pts |-> pts, dts |-> dts, units |-> units, keyframe |-> FALSE, gopId |-> 0]

\* new AudioSample(pts, data)
NewAudioSample(pts, data) == [pts |-> pts, data |-> data]

\* new FlvScriptSample(data, pts)
NewFlvScriptSample(data, pts) == [data |-> data, pts |-> pts]

\* new SeiSample(data, pts)
NewSeiSample(data, pts) == [data |-> data, pts |-> pts]

\* ------------------------------------------------------------------------
\* Collaborators (../codec, ./amf): a missing result (null) is Null
\* ------------------------------------------------------------------------

Null == [null |-> TRUE]

\* big-endian number of n bytes at offset i
RECURSIVE readBigN(_, _, _)
readBigN(data, i, n) ==
  IF n = 0 THEN 0
  ELSE readBigN(data, i, n - 1) * 256 + ToInt(At(data, i + n - 1))

\* NALu.parseAvcC(data, size): the length-prefixed NAL units of data, prefix stripped
RECURSIVE parseAvcCFrom(_, _, _, _)
parseAvcCFrom(data, size, offset, units) ==
  IF offset + size > Len(data) THEN units
  ELSE LET length == readBigN(data, offset, size)
           start == offset + size
       IN  IF start + length > Len(data) THEN units
           ELSE parseAvcCFrom(data, size, start + length,
                              Append(units, Subarray(data, start, start + length)))

parseAvcC(data, size) == parseAvcCFrom(data, size, 0, <<>>)

\* NALu.removeEPB(data): drop each 0x03 that follows two 0x00 bytes
RECURSIVE removeEPBFrom(_, _, _)
removeEPBFrom(data, i, zeros) ==
  IF i >= Len(data) THEN <<>>
  ELSE LET b == data[i + 1]
       IN  IF zeros >= 2 /\ b = 3 THEN removeEPBFrom(data, i + 1, 0)
           ELSE <<b>> \o removeEPBFrom(data, i + 1, IF b = 0 THEN zeros + 1 ELSE 0)

removeEPB(data) == removeEPBFrom(data, 0, 0)

\* NALu.parseSEI(data, isHevc): payload type, payload size and body after the
\* NAL header (one byte for AVC, two for HEVC)
parseSEI(data, isHevc) ==
  LET h == IF isHevc THEN 2 ELSE 1
  IN  [payloadType |-> ToInt(At(data, h)), payloadSize |-> ToInt(At(data, h + 1)),
       payload |-> Subarray(data, h + 2, h + 2 + ToInt(At(data, h + 1)))]

\* AMF.parse(data): the value tree of a script body, kept as the bytes it is read from
AMFparse(data) == [amf |-> data]

\* sampling frequencies of the AudioSpecificConfig frequency index
AacSampleRates ==
  <<96000, 88200, 64000, 48000, 44100, 32000, 24000, 22050, 16000, 12000, 11025, 8000, 7350>>

\* AAC.parseAudioSpecificConfig(data): object type (5 bits), frequency index
\* (4 bits), channel configuration (4 bits)
parseAudioSpecificConfig(data) ==
  IF Len(data) < 2 THEN Null
  ELSE LET objectType == data[1] \div 8
           freqIdx == (data[1] % 8) * 2 + data[2] \div 128
           channelCount == (data[2] \div 8) % 16
       IN  IF freqIdx >= Len(AacSampleRates) THEN Null
           ELSE [codec |-> "mp4a.40", channelCount |-> channelCount,
                 sampleRate |-> AacSampleRates[freqIdx + 1], config |-> SubSeq(data, 1, 2),
                 objectType |-> objectType, samplingFrequencyIndex |-> freqIdx]

\* count NAL units of a configuration record, each with a 16-bit length, from
\* offset; the result is [units, offset], or Null when the record is truncated
RECURSIVE readConfigNals(_, _, _, _)
readConfigNals(data, offset, count, units) ==
  IF count = 0 THEN [units |-> units, offset |-> offset]
  ELSE IF offset + 2 > Len(data) THEN Null
  ELSE LET length == readBigN(data, offset, 2)
       IN  IF offset + 2 + length > Len(data) THEN Null
           ELSE readConfigNals(data, offset + 2 + length, count - 1,
                               Append(units, Subarray(data, offset + 2, offset + 2 + length)))

\* AVC.parseAVCDecoderConfigurationRecord(data): version, profile, compatibility,
\* level, NAL length size, the SPS list, the PPS list
parseAVCDecoderConfigurationRecord(data) ==
  IF Len(data) < 7 THEN Null
  ELSE LET nalUnitSize == (data[5] % 4) + 1
           s == readConfigNals(data, 6, data[6] % 32, <<>>)
       IN  IF s = Null THEN Null
           ELSE LET p == readConfigNals(data, s.offset + 1, ToInt(At(data, s.offset)), <<>>)
                IN  IF p = Null THEN Null
                    ELSE [hvcC |-> <<>>, sps |-> Len(s.units) > 0, codec |-> "avc1",
                          spsArr |-> s.units, ppsArr |-> p.units, vpsArr |-> <<>>,
                          nalUnitSize |-> nalUnitSize]

\* the arrays of an HEVC configuration record: each has a NAL type (6 bits), a
\* 16-bit count and its units; VPS is 32, SPS 33, PPS 34
RECURSIVE readHevcArrays(_, _, _, _)
readHevcArrays(data, offset, count, acc) ==
  IF count = 0 THEN acc
  ELSE IF offset + 3 > Len(data) THEN Null
  ELSE LET type == data[offset + 1] % 64
           r == readConfigNals(data, offset + 3, readBigN(data, offset + 1, 2), <<>>)
       IN  IF r = Null THEN Null
           ELSE readHevcArrays(data, r.offset, count - 1,
                  [acc EXCEPT !.vpsArr = IF type = 32 THEN @ \o r.units ELSE @,
                              !.spsArr = IF type = 33 THEN @ \o r.units ELSE @,
                              !.ppsArr = IF type = 34 THEN @ \o r.units ELSE @])

\* HEVC.parseHEVCDecoderConfigurationRecord(data): 22 bytes of general
\* configuration (NAL length size in the last), the array count, the arrays
parseHEVCDecoderConfigurationRecord(data) ==
  IF Len(data) < 23 THEN Null
  ELSE LET r == readHevcArrays(data, 23, data[23],
                  [vpsArr |-> <<>>, spsArr |-> <<>>, ppsArr |-> <<>>])
       IN  IF r = Null THEN Null
           ELSE [hvcC |-> data, sps |-> Len(r.spsArr) > 0, codec |-> "hev1",
                 spsArr |-> r.spsArr, ppsArr |-> r.ppsArr, vpsArr |-> r.vpsArr,
                 nalUnitSize |-> (data[22] % 4) + 1]

\* a sample with its timestamps moved by shift: pts, and dts where it has one
Rebased(sample, shift) ==
  IF "dts" \in DOMAIN sample
  THEN [sample EXCEPT !.pts = @ + shift, !.dts = @ + shift]
  ELSE [sample EXCEPT !.pts = @ + shift]

\* the samples of a list after the fixer: their timestamps rewritten, the list
\* emptied when the fixer consumed them
FixedSamples(samples, shift, drained) ==
  IF drained THEN <<>> ELSE [k \in 1..Len(samples) |-> Rebased(samples[k], shift)]

\* FlvFixer.fix(startTime, discontinuity, contiguous) on the three tracks the
\* fixer was made with: it rewrites the timestamps of the samples, here to
\* start from startTime, and may consume the samples; the rest of the tracks
\* and the fields of the demuxer stay
FlvFixerFix(self, startTime, drained) ==
  [self EXCEPT
     !.videoTrack.samples = FixedSamples(@, startTime, drained),
     !.audioTrack.samples = FixedSamples(@, startTime, drained),
     !.metadataTrack.seiSamples = FixedSamples(@, startTime, drained),
     !.metadataTrack.flvScriptSamples = FixedSamples(@, startTime, drained)]

\* ------------------------------------------------------------------------
\* FlvDemuxer: the handlers.  self is the demuxer: its four fields, its three
\* tracks, and log, the warnings the call has given to the logger.
\* ------------------------------------------------------------------------

\* new FlvDemuxer()
NewFlvDemuxer ==
  [headerParsed |-> FALSE, remainingData |-> <<>>, gopId |-> 0,
   needAddMetaBeforeKeyFrameNal |-> TRUE,
   videoTrack |-> NewVideoTrack, audioTrack |-> NewAudioTrack,
   metadataTrack |-> NewMetadataTrack, log |-> <<>>]

\* logger.warn(msg)
Warn(self, msg) == [self EXCEPT !.log = Append(@, msg)]

\* FlvDemuxer.AUDIO_RATE
AUDIO_RATE == <<5500, 11000, 22000, 44000>>

\* FlvDemuxer.probe(data)
probe(data) ==
  IF At(data, 0) # 70 \/ At(data, 1) # 76 \/ At(data, 2) # 86 \/ At(data, 3) # 1
  THEN FALSE
  ELSE AtLeast(readBig32(data, 5), 9)

\* the NAL type of a unit: (unit[0] >>> 1) & 0x3f for HEVC, unit[0] & 0x1f for AVC
NalType(isHevc, unit) ==
  IF isHevc THEN (ToInt(At(unit, 0)) \div 2) % 64 ELSE ToInt(At(unit, 0)) % 32

\* arr[0] pushed to the front of a list and kept by filter(Boolean): nothing
\* when arr is empty (arr[0] is undefined)
FirstOf(arr) == IF Len(arr) > 0 THEN <<arr[1]>> ELSE <<>>

InsertMetaNalsPpsFirst(units, track) ==
  FirstOf(track.pps) \o FirstOf(track.sps) \o FirstOf(track.vps) \o units

\* the units after the three unshift calls and filter(Boolean)
InsertMetaNals(units, track) ==
  FirstOf(track.vps) \o FirstOf(track.sps) \o FirstOf(track.pps) \o units

\* _checkAddMetaNalToUnits(hevc, units, track): the units to use and the latch
checkAddMetaNalToUnits(self, hevc, units, track) ==
  IF ~hevc \/ ~self.needAddMetaBeforeKeyFrameNal
  THEN [needAddMetaBeforeKeyFrameNal |-> FALSE, units |-> units]
  ELSE IF \E i \in 1..Len(units) : NalType(TRUE, units[i]) = 32
  THEN [needAddMetaBeforeKeyFrameNal |-> FALSE, units |-> units]
  ELSE [needAddMetaBeforeKeyFrameNal |-> self.needAddMetaBeforeKeyFrameNal,
        units |-> InsertMetaNals(units, track)]

\* the switch of _parseVideo on a unit's type: the cases that set the keyframe
IsKeyframeNal(isHevc, type) ==
  /\ type \in {5, 16, 17, 18, 19, 20, 21, 22, 23}
  /\ ~((~isHevc /\ type # 5) \/ (isHevc /\ type = 5))

\* the switch of _parseVideo on a unit's type: the cases that give a SeiSample
IsSeiNal(isHevc, type) ==
  /\ type \in {6, 39, 40}
  /\ ~((~isHevc /\ type # 6) \/ (isHevc /\ type = 6))

\* the SeiSamples of the units, in unit order
RECURSIVE SeiSamplesOf(_, _, _, _)
SeiSamplesOf(units, i, isHevc, pts) ==
  IF i > Len(units) THEN <<>>
  ELSE (IF IsSeiNal(isHevc, NalType(isHevc, units[i]))
        THEN <<NewSeiSample(parseSEI(removeEPB(units[i]), isHevc), pts)>>
        ELSE <<>>) \o SeiSamplesOf(units, i + 1, isHevc, pts)

\* sample.keyframe after the frame type test and the scan of the units
SampleKeyframe(frameType, isHevc, units) ==
  \/ frameType = 1
  \/ \E i \in 1..Len(units) : IsKeyframeNal(isHevc, NalType(isHevc, units[i]))

NextGopIdEverySample(gopId, keyframe) == gopId + 1

\* this._gopId after a sample: one more for a keyframe
NextGopId(gopId, keyframe) == IF keyframe THEN gopId + 1 ELSE gopId

\* _parseVideo, packetType 0: what is done with the parsed record ret
storeVideoConfig(self, ret) ==
  LET track == self.videoTrack
  IN  IF ret = Null
      THEN Warn(self, "Cannot parse DecoderConfigurationRecord")
      ELSE [self EXCEPT !.videoTrack =
              [track EXCEPT
                 !.hvcC = IF Len(ret.hvcC) > 0 /\ Len(track.hvcC) = 0 THEN ret.hvcC ELSE @,
                 !.codec = IF ret.sps THEN ret.codec ELSE @,
                 !.sps = IF Len(ret.spsArr) > 0 THEN ret.spsArr ELSE @,
                 !.pps = IF Len(ret.ppsArr) > 0 THEN ret.ppsArr ELSE @,
                 !.vps = IF Len(ret.vpsArr) > 0 THEN ret.vpsArr ELSE @,
                 !.nalUnitSize = IF ret.nalUnitSize # 0 THEN ret.nalUnitSize ELSE @]]

\* _parseVideo, packetType 0: the decoder configuration record
parseVideoConfig(self, data, isHevc) ==
  storeVideoConfig(self,
    IF isHevc THEN parseHEVCDecoderConfigurationRecord(SubarrayFrom(data, 5))
    ELSE parseAVCDecoderConfigurationRecord(SubarrayFrom(data, 5)))

\* _parseVideo, packetType 1: one or more NAL units
parseVideoNalus(self, data, dts, cts, frameType, isHevc) ==
  LET track == self.videoTrack
      r == checkAddMetaNalToUnits(self, isHevc,
             parseAvcC(SubarrayFrom(data, 5), track.nalUnitSize), track)
      units == r.units
      self1 == [self EXCEPT !.needAddMetaBeforeKeyFrameNal = r.needAddMetaBeforeKeyFrameNal]
  IN  IF Len(units) > 0
      THEN LET keyframe == SampleKeyframe(frameType, isHevc, units)
               gopId == NextGopId(self.gopId, keyframe)
               sample == [NewVideoSample(dts + cts, dts, units) EXCEPT
                            !.keyframe = keyframe, !.gopId = gopId]
           IN  [self1 EXCEPT
                  !.videoTrack.samples = Append(@, sample),
                  !.metadataTrack.seiSamples = @ \o SeiSamplesOf(units, 1, isHevc, dts + cts),
                  !.gopId = gopId]
      ELSE Warn(self1, "Cannot parse NALUs")

\* _parseVideo(data, dts)
parseVideo(self, data, dts) ==
  IF Len(data) < 6 THEN self
  ELSE LET frameType == data[1] \div 16
           codecId == data[1] % 16
       IN  IF codecId # 7 /\ codecId # 12
           THEN Warn([self EXCEPT !.videoTrack = VideoTrackReset(@)], "Unsupported codecId")
           ELSE LET isHevc == codecId = 12
                    self1 == [self EXCEPT
                                !.videoTrack.codecType = IF isHevc THEN "hevc" ELSE "avc"]
                    packetType == data[2]
                    cts == SignExtend24(Bits24(data, 2))
                IN  IF packetType = 0 THEN parseVideoConfig(self1, data, isHevc)
                    ELSE IF packetType = 1
                    THEN parseVideoNalus(self1, data, dts, cts, frameType, isHevc)
                    ELSE IF packetType = 2 THEN self1
                    ELSE Warn(self1, "Unknown AVCPacketType")

\* _parseG711(data, pts, format)
parseG711(self, data, pts, format) ==
  LET codecType == IF format = 7 THEN "g711a" ELSE "g711u"
  IN  [self EXCEPT !.audioTrack =
         [@ EXCEPT !.codecType = codecType, !.sampleRate = 8000, !.codec = codecType,
                   !.samples = Append(@, NewAudioSample(pts, SubarrayFrom(data, 1)))]]

\* _parseAac(data, pts)
parseAac(self, data, pts) ==
  LET self1 == [self EXCEPT !.audioTrack.codecType = "aac"]
      packetType == At(data, 1)
  IN  IF packetType = 0
      THEN LET ret == parseAudioSpecificConfig(SubarrayFrom(data, 2))
           IN  IF ret # Null
               THEN [self1 EXCEPT !.audioTrack =
                       [@ EXCEPT !.codec = ret.codec, !.channelCount = ret.channelCount,
                                 !.sampleRate = ret.sampleRate, !.config = ret.config,
                                 !.objectType = ret.objectType,
                                 !.sampleRateIndex = ret.samplingFrequencyIndex]]
               ELSE Warn([self1 EXCEPT !.audioTrack = AudioTrackReset(@)],
                         "Cannot parse AudioSpecificConfig")
      ELSE IF packetType = 1
      THEN [self1 EXCEPT !.audioTrack.samples =
              Append(@, NewAudioSample(pts, SubarrayFrom(data, 2)))]
      ELSE Warn(self1, "Unknown AACPacketType")

\* _parseAudio(data, pts)
parseAudio(self, data, pts) ==
  IF Len(data) = 0 THEN self
  ELSE LET format == data[1] \div 16
       IN  IF format # 10 /\ format # 7 /\ format # 8
           THEN [Warn(self, "Unsupported sound format") EXCEPT
                   !.audioTrack = AudioTrackReset(@)]
           ELSE IF format # 10
           THEN LET soundRate == (data[1] % 16) \div 4
                    soundSize == (data[1] % 4) \div 2
                    soundType == data[1] % 2
                    self1 == [self EXCEPT !.audioTrack =
                                [@ EXCEPT !.sampleRate = AUDIO_RATE[soundRate + 1],
                                          !.sampleSize = IF soundSize = 1 THEN 16 ELSE 8,
                                          !.channelCount = soundType + 1]]
                IN  parseG711(self1, data, pts, format)
           ELSE parseAac(self, data, pts)

\* _parseScript(data, pts)
parseScript(self, data, pts) ==
  [self EXCEPT !.metadataTrack.flvScriptSamples =
     Append(@, NewFlvScriptSample(AMFparse(data), pts))]

\* ------------------------------------------------------------------------
\* FlvDemuxer.demux
\* ------------------------------------------------------------------------

DropRemainingNotContiguous(self, discontinuity, contiguous) ==
  IF ~contiguous THEN [self EXCEPT !.remainingData = <<>>] ELSE self

\* demux, first reset: on a discontinuity, or when the data does not follow
\* the data of the call before, the remainder is dropped
DropRemaining(self, discontinuity, contiguous) ==
  IF discontinuity \/ ~contiguous THEN [self EXCEPT !.remainingData = <<>>] ELSE self

\* a preparation that would arm the latch again on a discontinuity
DemuxPrepareRearmsLatch(self, data, discontinuity, contiguous) ==
  LET self1 == DropRemaining(self, discontinuity, contiguous)
      self2 == IF discontinuity
               THEN [self1 EXCEPT !.headerParsed = FALSE,
                                  !.needAddMetaBeforeKeyFrameNal = TRUE]
               ELSE self1
  IN  IF discontinuity
      THEN [self |-> [self2 EXCEPT !.videoTrack = VideoTrackReset(@),
                                   !.audioTrack = AudioTrackReset(@),
                                   !.metadataTrack = MetadataTrackReset(@)],
            data |-> data]
      ELSE [self |-> [self2 EXCEPT !.videoTrack.samples = <<>>,
                                   !.audioTrack.samples = <<>>,
                                   !.metadataTrack.seiSamples = <<>>,
                                   !.metadataTrack.flvScriptSamples = <<>>,
                                   !.videoTrack.warnings = <<>>,
                                   !.audioTrack.warnings = <<>>,
                                   !.remainingData = <<>>],
            data |-> concatUint8Array(self2.remainingData, data)]

DemuxPrepareKeepsLists(self, data, discontinuity, contiguous) ==
  LET self1 == DropRemaining(self, discontinuity, contiguous)
      self2 == IF discontinuity THEN [self1 EXCEPT !.headerParsed = FALSE] ELSE self1
  IN  IF discontinuity
      THEN [self |-> [self2 EXCEPT !.videoTrack = VideoTrackReset(@),
                                   !.audioTrack = AudioTrackReset(@),
                                   !.metadataTrack = MetadataTrackReset(@)],
            data |-> data]
      ELSE [self |-> [self2 EXCEPT !.remainingData = <<>>],
            data |-> concatUint8Array(self2.remainingData, data)]

\* demux, the resets before parsing: the demuxer and the data to parse
\* (remainingData, when kept, in front of the new data)
DemuxPrepare(self, data, discontinuity, contiguous) ==
  LET self1 == DropRemaining(self, discontinuity, contiguous)
      self2 == IF discontinuity THEN [self1 EXCEPT !.headerParsed = FALSE] ELSE self1
  IN  IF discontinuity
      THEN [self |-> [self2 EXCEPT !.videoTrack = VideoTrackReset(@),
                                   !.audioTrack = AudioTrackReset(@),
                                   !.metadataTrack = MetadataTrackReset(@)],
            data |-> data]
      ELSE [self |-> [self2 EXCEPT !.videoTrack.samples = <<>>,
                                   !.audioTrack.samples = <<>>,
                                   !.metadataTrack.seiSamples = <<>>,
                                   !.metadataTrack.flvScriptSamples = <<>>,
                                   !.videoTrack.warnings = <<>>,
                                   !.audioTrack.warnings = <<>>,
                                   !.remainingData = <<>>],
            data |-> concatUint8Array(self2.remainingData, data)]

\* demux, the FLV header: the track flags, headerParsed and the offset of the
\* first tag; not called when the header was parsed or probe fails
DemuxHeader(self, data) ==
  [self |-> [self EXCEPT
               !.audioTrack.present = BitAnd(ToInt(At(data, 4)), 4) \div 4 # 0,
               !.videoTrack.present = BitAnd(ToInt(At(data, 4)), 1) # 0,
               !.headerParsed = TRUE],
   offset |-> Narrow(readBig32(data, 5)) + 4]

NeedsHeaderAlways(self) == TRUE

\* demux parses the FLV header first: the header was not parsed yet
NeedsHeader(self) == ~self.headerParsed

\* the condition of the tag loop
LoopCondition(offset, dataLen) == offset + 15 < dataLen

\* the tag at offset is not whole in data: leave the loop
TagIncomplete(offset, dataSize, dataLen) == offset + 15 + dataSize > dataLen

\* timestamp of the tag at offset, in two halves:
\* (data[offset + 7] << 24 >>> 0) + (data[offset + 4] << 16)
\*   + (data[offset + 5] << 8) + data[offset + 6]
TagTimestamp32(data, offset) ==
  Plus(Plus(Plus(Uint32(ShiftLeft(ToInt(At(data, offset + 7)), 24)),
                 ShiftLeft(ToInt(At(data, offset + 4)), 16)),
            ShiftLeft(ToInt(At(data, offset + 5)), 8)),
       ToInt(At(data, offset + 6)))

\* timestamp of the tag at offset: the extension byte above the low 24 bits
TagTimestamp(data, offset) == Narrow(TagTimestamp32(data, offset))

\* the dispatch of a tag body on the tag type
Dispatch(self, tagType, bodyData, timestamp) ==
  IF tagType = 8 THEN parseAudio(self, bodyData, timestamp)
  ELSE IF tagType = 9 THEN parseVideo(self, bodyData, timestamp)
  ELSE IF tagType = 18 THEN parseScript(self, bodyData, timestamp)
  ELSE Warn(self, "Invalid tag type")

\* the test of the size that follows a tag body
CheckPrevTagSize(self, prevTagSize, dataSize) ==
  IF prevTagSize # Wide(11 + dataSize) THEN Warn(self, "Invalid PrevTagSize") ELSE self

\* one pass of the loop body on the tag at offset, after the completeness test
DemuxTag(self, data, offset) ==
  LET tagType == At(data, offset)
      dataSize == Bits24(data, offset + 1)
      timestamp == TagTimestamp(data, offset)
      bodyData == Subarray(data, offset + 11, offset + 11 + dataSize)
  IN  CheckPrevTagSize(Dispatch(self, tagType, bodyData, timestamp),
                       readBig32(data, offset + 11 + dataSize), dataSize)

\* the parameter set fields of the video track
ParamSets(track) ==
  [sps |-> track.sps, pps |-> track.pps, vps |-> track.vps,
   nalUnitSize |-> track.nalUnitSize, hvcC |-> track.hvcC]

\* what one pass of the loop did, for the record of the call: the tag, the gop
\* counter around it, the samples it appended, whether it warned
TagRecord(before, after, data, offset) ==
  [offset |-> offset, tagType |-> At(data, offset),
   dataSize |-> Bits24(data, offset + 1), timestamp |-> TagTimestamp(data, offset),
   gopBefore |-> before.gopId, gopAfter |-> after.gopId,
   latchBefore |-> before.needAddMetaBeforeKeyFrameNal,
   latchAfter |-> after.needAddMetaBeforeKeyFrameNal,
   vpsBefore |-> before.videoTrack.vps, spsBefore |-> before.videoTrack.sps,
   ppsBefore |-> before.videoTrack.pps,
   nalUnitSizeBefore |-> before.videoTrack.nalUnitSize,
   hvcCBefore |-> before.videoTrack.hvcC,
   paramsAfter |-> ParamSets(after.videoTrack),
   video |-> IF Len(after.videoTrack.samples) = Len(before.videoTrack.samples) + 1
             THEN <<after.videoTrack.samples[Len(after.videoTrack.samples)]>> ELSE <<>>,
   audio |-> IF Len(after.audioTrack.samples) = Len(before.audioTrack.samples) + 1
             THEN <<after.audioTrack.samples[Len(after.audioTrack.samples)]>> ELSE <<>>,
   script |-> SubSeq(after.metadataTrack.flvScriptSamples,
                     Len(before.metadataTrack.flvScriptSamples) + 1,
                     Len(after.metadataTrack.flvScriptSamples)),
   sei |-> SubSeq(after.metadataTrack.seiSamples,
                  Len(before.metadataTrack.seiSamples) + 1,
                  Len(after.metadataTrack.seiSamples)),
   warned |-> SubSeq(after.log, Len(before.log) + 1, Len(after.log)),
   videoReset |-> Len(after.videoTrack.samples) < Len(before.videoTrack.samples),
   audioReset |-> Len(after.audioTrack.samples) < Len(before.audioTrack.samples)]

\* the tag loop from offset: the demuxer, the offset and the record after it
RECURSIVE DemuxLoop(_, _, _, _)
RECURSIVE DemuxLoopNext(_, _, _, _, _)
DemuxLoop(self, data, offset, trace) ==
  IF ~LoopCondition(offset, Len(data))
  THEN [self |-> self, offset |-> offset, trace |-> trace]
  ELSE IF TagIncomplete(offset, Bits24(data, offset + 1), Len(data))
  THEN [self |-> self, offset |-> offset, trace |-> trace]
  ELSE DemuxLoopNext(self, DemuxTag(self, data, offset), data, offset, trace)

\* the tag loop after the pass on the tag at offset that took the demuxer from
\* before to self: the pass is recorded and the loop goes on behind the tag
DemuxLoopNext(before, self, data, offset, trace) ==
  DemuxLoop(self, data, offset + 11 + Bits24(data, offset + 1) + 4,
            Append(trace, TagRecord(before, self, data, offset)))

\* demux, after the loop: the bytes from offset are kept for the next call
SaveRemaining(self, data, offset) ==
  IF offset < Len(data)
  THEN [self EXCEPT !.remainingData = SubarrayFrom(data, offset)]
  ELSE self

\* demux, after the loop: the timescales
SetTimescales(self) ==
  [self EXCEPT !.audioTrack.formatTimescale = 1000,
               !.videoTrack.formatTimescale = 1000,
               !.videoTrack.timescale = 1000,
               !.metadataTrack.timescale = 1000,
               !.audioTrack.timescale = self.audioTrack.sampleRate]

ResetAbsentAudioNever(track) == track

\* demux, after the loop: a track with samples that does not exist is reset
ResetAbsentAudio(track) ==
  IF ~TrackExist(track) /\ TrackHasSample(track) THEN AudioTrackReset(track) ELSE track

ResetAbsentVideo(track) ==
  IF ~TrackExist(track) /\ TrackHasSample(track) THEN VideoTrackReset(track) ELSE track

\* demux, after the loop: both tracks
ResetAbsent(self) ==
  [self EXCEPT !.audioTrack = ResetAbsentAudio(@), !.videoTrack = ResetAbsentVideo(@)]

\* what a call of demux gives: the demuxer after it, whether it threw 'Invalid
\* flv file', the data it parsed (remainingData and the new data), the offset
\* it reached and the record of its tags
DemuxResult(self, threw, data, offset, trace) ==
  [self |-> self, threw |-> threw, data |-> data, offset |-> offset, trace |-> trace]

\* demux, from the end of the tag loop to the return
DemuxAfterLoop(data, l) ==
  DemuxResult(ResetAbsent(SetTimescales(SaveRemaining(l.self, data, l.offset))),
              FALSE, data, l.offset, l.trace)

\* demux, the tag loop from the offset h.offset on
DemuxTags(data, h) == DemuxAfterLoop(data, DemuxLoop(h.self, data, h.offset, <<>>))

\* demux, from the test of the data length on: p holds the demuxer and the data
\* after the resets
DemuxPrepared(p) ==
  IF Len(p.data) = 0 THEN DemuxResult(p.self, FALSE, p.data, 0, <<>>)
  ELSE IF NeedsHeader(p.self) /\ ~probe(p.data)
  THEN DemuxResult(p.self, TRUE, p.data, 0, <<>>)
  ELSE DemuxTags(p.data, IF NeedsHeader(p.self) THEN DemuxHeader(p.self, p.data)
                         ELSE [self |-> p.self, offset |-> 0])

\* demux(data, discontinuity, contiguous)
demux(self0, data0, discontinuity, contiguous) ==
  DemuxPrepared(DemuxPrepare([self0 EXCEPT !.log = <<>>], data0, discontinuity,
                             contiguous))

\* ------------------------------------------------------------------------
\* FLV byte streams fed to the demuxer
\* ------------------------------------------------------------------------

\* n as k big-endian bytes
RECURSIVE BigEndian(_, _)
BigEndian(n, k) == IF k = 0 THEN <<>> ELSE BigEndian(n \div 256, k - 1) \o <<n % 256>>

\* the 9-byte FLV header with the given flags byte, then previous tag size 0
FlvHeader(flags) == <<70, 76, 86, 1, flags>> \o BigEndian(9, 4) \o BigEndian(0, 4)

\* a tag: type, data size, timestamp (low 24 bits, extension byte), stream id,
\* the body, the size of the tag
FlvTag(tagType, timestamp, body) ==
  <<tagType>> \o BigEndian(Len(body), 3) \o BigEndian(timestamp % 16777216, 3)
    \o <<timestamp \div 16777216>> \o <<0, 0, 0>> \o body \o BigEndian(11 + Len(body), 4)

\* a video body: frame type and codec id, packet type, composition time, payload
VideoBody(frameType, codecId, packetType, cts, payload) ==
  <<frameType * 16 + codecId, packetType>> \o BigEndian(cts, 3) \o payload

\* a NAL unit behind its length prefix of size bytes
Nal(size, unit) == BigEndian(Len(unit), size) \o unit

\* an AVC decoder configuration record: 2-byte NAL lengths, one SPS, one PPS
AvcConfig == <<1, 100, 0, 31, 1, 1>> \o Nal(2, <<103, 100>>) \o <<1>> \o Nal(2, <<104, 110>>)

\* an HEVC decoder configuration record: 2-byte NAL lengths, VPS, SPS and PPS arrays
HevcConfig ==
  <<1, 1, 96, 0, 0, 0, 16, 0, 0, 0, 0, 0, 93, 112, 0, 124, 125, 120, 120, 0, 0, 13, 3>>
    \o <<32, 0, 1>> \o Nal(2, <<64, 1, 12>>)
    \o <<33, 0, 1>> \o Nal(2, <<66, 1, 1>>)
    \o <<34, 0, 1>> \o Nal(2, <<68, 1, 64>>)

\* a later HEVC decoder configuration record: 4-byte NAL lengths, a PPS only
HevcPpsConfig ==
  <<1, 1, 96, 0, 0, 0, 16, 0, 0, 0, 0, 0, 93, 112, 0, 124, 125, 120, 120, 0, 0, 15, 1>>
    \o <<34, 0, 1>> \o Nal(2, <<68, 1, 65>>)

\* video tags
AvcConfigTag(ts) == FlvTag(9, ts, VideoBody(1, 7, 0, 0, AvcConfig))
AvcKeyTag(ts) == FlvTag(9, ts, VideoBody(1, 7, 1, 0, Nal(2, <<65, 8>>)))
AvcInterSeiTag(ts) ==
  FlvTag(9, ts, VideoBody(2, 7, 1, 16777214, Nal(2, <<6, 5, 1, 9>>) \o Nal(2, <<65, 26>>)))
AvcIdrNalOnlyTag(ts) == FlvTag(9, ts, VideoBody(2, 7, 1, 3, Nal(2, <<101, 9>>)))
HevcConfigTag(ts) == FlvTag(9, ts, VideoBody(1, 12, 0, 0, HevcConfig))
HevcPpsConfigTag(ts) == FlvTag(9, ts, VideoBody(1, 12, 0, 0, HevcPpsConfig))
HevcTrailTag(ts) == FlvTag(9, ts, VideoBody(2, 12, 1, 0, Nal(2, <<2, 1, 7>>)))
HevcTrail4Tag(ts) == FlvTag(9, ts, VideoBody(2, 12, 1, 0, Nal(4, <<2, 1, 5>>)))
HevcVpsIdrTag(ts) ==
  FlvTag(9, ts, VideoBody(2, 12, 1, 0, Nal(2, <<64, 1, 12>>) \o Nal(2, <<38, 1, 47>>)))
BadCodecTag(ts) == FlvTag(9, ts, VideoBody(1, 3, 0, 0, <<0>>))
EmptyNalTag(ts) == FlvTag(9, ts, VideoBody(2, 7, 1, 0, <<0>>))
BadPacketTypeTag(ts) == FlvTag(9, ts, VideoBody(2, 7, 5, 0, <<0>>))
BadAvcConfigTag(ts) == FlvTag(9, ts, VideoBody(1, 7, 0, 0, <<1, 100>>))

\* audio tags
AacConfigTag(ts) == FlvTag(8, ts, <<175, 0, 18, 16>>)
AacFrameTag(ts) == FlvTag(8, ts, <<175, 1, 33, 34>>)
BadAacConfigTag(ts) == FlvTag(8, ts, <<175, 0, 18>>)
BadAacPacketTag(ts) == FlvTag(8, ts, <<175, 2, 0>>)
G711Tag(ts) == FlvTag(8, ts, <<114, 1, 2>>)
BadSoundTag(ts) == FlvTag(8, ts, <<47, 1>>)

\* script and other tags
ScriptTag(ts) == FlvTag(18, ts, <<2, 0, 1, 97>>)
EmptyScriptTag(ts) == FlvTag(18, ts, <<>>)
UnknownTag(ts) == FlvTag(5, ts, <<1, 2>>)
BadPrevSizeTag(ts) == <<18>> \o BigEndian(1, 3) \o BigEndian(ts, 3) \o <<0, 0, 0, 0, 7>> \o BigEndian(3, 4)

\* the tag sequences of the streams: AVC, HEVC, audio, anomalies
AvcBody ==
  AvcConfigTag(0) \o AvcKeyTag(40) \o AvcInterSeiTag(80) \o AvcIdrNalOnlyTag(120)
HevcBody ==
  HevcConfigTag(0) \o HevcTrailTag(40) \o HevcTrailTag(80) \o HevcVpsIdrTag(120)
    \o HevcTrailTag(160)
AudioBody ==
  AacConfigTag(0) \o AacFrameTag(23) \o G711Tag(46) \o BadSoundTag(69) \o AacFrameTag(92)
MixedVideoBody ==
  AvcConfigTag(0) \o HevcTrailTag(40) \o AvcInterSeiTag(80) \o BadCodecTag(120)

BadVideoBody == EmptyNalTag(0) \o BadPacketTypeTag(40) \o BadAvcConfigTag(80)
BadAudioBody == BadAacConfigTag(0) \o BadAacPacketTag(23) \o AacFrameTag(46)
ScriptBody ==
  HevcTrail4Tag(0) \o ScriptTag(10) \o EmptyScriptTag(20) \o UnknownTag(30)
    \o BadPrevSizeTag(40) \o EmptyScriptTag(50)

Bodies ==
  {<<>>, AvcBody, HevcBody, AudioBody, MixedVideoBody, BadVideoBody, BadAudioBody,
   ScriptBody}

\* a stream that is no FLV stream: version 2
NotFlv == <<70, 76, 86, 2, 5>> \o BigEndian(9, 4) \o BigEndian(0, 4) \o ScriptTag(0)

Streams ==
  {FlvHeader(5) \o b : b \in Bodies}
    \cup {FlvHeader(1) \o AacConfigTag(0) \o AacFrameTag(23),
          FlvHeader(4) \o AvcConfigTag(0) \o AvcKeyTag(40),
          FlvHeader(5) \o HevcConfigTag(0) \o HevcTrailTag(20) \o HevcPpsConfigTag(40),
          NotFlv}

\* the offsets of the whole tags of a stream that starts with a header
RECURSIVE TagOffsets(_, _)
TagOffsets(s, offset) ==
  IF offset + 15 > Len(s) \/ offset + 15 + Bits24(s, offset + 1) > Len(s) THEN {}
  ELSE {offset} \cup TagOffsets(s, offset + 15 + Bits24(s, offset + 1))

\* a cut inside the i-th tag, at offset t with dataSize d: inside its header,
\* inside its body or inside its trailing size, in turn
InnerCut(t, d, i) ==
  IF i % 3 = 0 THEN t + 5 ELSE IF i % 3 = 1 THEN t + 11 + (d + 1) \div 2 ELSE t + 13 + d

\* where a stream is cut into chunks: inside the header, inside previous tag
\* size 0, at each tag, inside each tag, at the end
Cuts(s) ==
  LET tags == TagOffsets(s, 13)
  IN  {3, 11, Len(s)}
        \cup tags
        \cup {InnerCut(t, Bits24(s, t + 1), Cardinality({u \in tags : u < t})) : t \in tags}

\* ------------------------------------------------------------------------
\* The state machine
\* ------------------------------------------------------------------------

\* largest gop counter the model follows
MaxGopId == 2

\* a chunk ends at one of this many next cuts of the stream, or at its end
MaxAhead == 3

VARIABLES
  headerParsed,                  \* this._headerParsed
  remainingData,                 \* this._remainingData, <<>> for null
  gopId,                         \* this._gopId
  needAddMetaBeforeKeyFrameNal,  \* this._needAddMetaBeforeKeyFrameNal
  videoTrack,                    \* this.videoTrack
  audioTrack,                    \* this.audioTrack
  metadataTrack,                 \* this.metadataTrack
  stream,                        \* the bytes the caller reads from
  pos,                           \* how many of them it has handed to demux
  call,                          \* the last call of demux: arguments, state before, outcome
  session,                       \* what the calls so far returned, one list after the other
  aliased,                       \* this._remainingData is a view on the caller's buffer
  calc,                          \* the last call of a static or pure function
  reader,                        \* an ExpGolomb: _data, _bytesAvailable, _bitsAvailable, _word
  golomb                         \* the last call on the ExpGolomb: arguments, state before, outcome

vars == <<headerParsed, remainingData, gopId, needAddMetaBeforeKeyFrameNal,
          videoTrack, audioTrack, metadataTrack, stream, pos, call, session,
          aliased, calc, reader, golomb>>

\* the demuxer the variables hold
Self ==
  [headerParsed |-> headerParsed, remainingData |-> remainingData, gopId |-> gopId,
   needAddMetaBeforeKeyFrameNal |-> needAddMetaBeforeKeyFrameNal,
   videoTrack |-> videoTrack, audioTrack |-> audioTrack,
   metadataTrack |-> metadataTrack, log |-> <<>>]

\* what the record of a call keeps of the demuxer before it
Before(self) ==
  [headerParsed |-> self.headerParsed, remainingData |-> self.remainingData,
   gopId |-> self.gopId,
   needAddMetaBeforeKeyFrameNal |-> self.needAddMetaBeforeKeyFrameNal,
   params |-> ParamSets(self.videoTrack),
   held |-> [video |-> Len(self.videoTrack.samples),
             audio |-> Len(self.audioTrack.samples),
             sei |-> Len(self.metadataTrack.seiSamples),
             script |-> Len(self.metadataTrack.flvScriptSamples)]]

NoSession ==
  [calls |-> 0, threw |-> FALSE, video |-> <<>>, audio |-> <<>>, script |-> <<>>,
   sei |-> <<>>]

NoCall ==
  [made |-> FALSE, discontinuity |-> FALSE, contiguous |-> TRUE, chunk |-> <<>>,
   overwritten |-> FALSE, fixed |-> FALSE,
   before |-> Before(NewFlvDemuxer),
   threw |-> FALSE, data |-> <<>>, offset |-> 0, trace |-> <<>>, log |-> <<>>]

NoCalc == [op |-> "none", in |-> <<>>, out |-> <<>>]

\* no ExpGolomb was made
NoReader ==
  [data |-> <<>>, bytesAvailable |-> 0, bitsAvailable |-> 0, word |-> [hi |-> 0, lo |-> 0]]

NoGolomb ==
  [op |-> "none", arg |-> 0, before |-> NoReader, pc |-> "done", count |-> 0,
   out |-> [hi |-> 0, lo |-> 0]]

\* a new FlvDemuxer, not called yet
NewDemuxer ==
  /\ headerParsed = NewFlvDemuxer.headerParsed
  /\ remainingData = NewFlvDemuxer.remainingData
  /\ gopId = NewFlvDemuxer.gopId
  /\ needAddMetaBeforeKeyFrameNal = NewFlvDemuxer.needAddMetaBeforeKeyFrameNal
  /\ videoTrack = NewFlvDemuxer.videoTrack
  /\ audioTrack = NewFlvDemuxer.audioTrack
  /\ metadataTrack = NewFlvDemuxer.metadataTrack
  /\ pos = 0
  /\ call = NoCall
  /\ session = NoSession
  /\ aliased = FALSE

Init ==
  /\ NewDemuxer
  /\ stream \in Streams
  /\ calc = NoCalc
  /\ reader = NoReader
  /\ golomb = NoGolomb

\* after demux, this._remainingData is data.subarray(offset), a view on the
\* array data: the caller's own buffer, unless the call put the remainder of
\* the call before in front of it, which makes a new array
RemainingIsView(before, discontinuity, contiguous, after) ==
  /\ after.remainingData # <<>>
  /\ \/ discontinuity
     \/ DropRemaining(before, discontinuity, contiguous).remainingData = <<>>

\* the tracks are those of the demuxer self
Tracks(self) ==
  /\ videoTrack' = self.videoTrack
  /\ audioTrack' = self.audioTrack
  /\ metadataTrack' = self.metadataTrack

\* demux(chunk, discontinuity, contiguous) returns r, and the caller has the
\* demuxer self: that of r, or that of r after fix; the caller has read the
\* stream up to end
ReturnsWith(chunk, end, discontinuity, contiguous, r, self, fixed) ==
  /\ r.self.gopId <= MaxGopId
  /\ headerParsed' = self.headerParsed
  /\ remainingData' = self.remainingData
  /\ gopId' = self.gopId
  /\ needAddMetaBeforeKeyFrameNal' = self.needAddMetaBeforeKeyFrameNal
  /\ Tracks(self)
  /\ pos' = end
  /\ call' = [made |-> TRUE, discontinuity |-> discontinuity,
              contiguous |-> contiguous, chunk |-> chunk, overwritten |-> FALSE,
              fixed |-> fixed,
              before |-> Before(Self),
              threw |-> r.threw, data |-> r.data, offset |-> r.offset,
              trace |-> r.trace, log |-> r.self.log]
  /\ aliased' = RemainingIsView(Self, discontinuity, contiguous, r.self)
  /\ UNCHANGED <<stream, calc, reader, golomb>>

\* demux(chunk, discontinuity, contiguous) returns r: the fields and the tracks
\* of the demuxer are those of r
Returns(chunk, end, discontinuity, contiguous, r) ==
  ReturnsWith(chunk, end, discontinuity, contiguous, r, r.self, FALSE)

\* the caller calls demux(chunk, discontinuity, contiguous)
Called(chunk, end, discontinuity, contiguous) ==
  Returns(chunk, end, discontinuity, contiguous,
          demux(Self, chunk, discontinuity, contiguous))

\* the caller calls demux on the bytes of the stream from start up to end
Demux(start, end, discontinuity, contiguous) ==
  Called(SubSeq(stream, start + 1, end), end, discontinuity, contiguous)

\* the calls of the session are not followed
Untracked == UNCHANGED session

\* the call adds what it returned to the lists of the session
Tracked ==
  session' = [calls |-> session.calls + 1,
              threw |-> session.threw \/ call'.threw,
              video |-> session.video \o videoTrack'.samples,
              audio |-> session.audio \o audioTrack'.samples,
              script |-> session.script \o metadataTrack'.flvScriptSamples,
              sei |-> session.sei \o metadataTrack'.seiSamples]

\* the ends of the chunk a call may take from start: nothing, up to one of the
\* next MaxAhead cuts, or all the rest of the stream
ChunkEnds(s, start) ==
  {start, Len(s)}
    \cup {c \in Cuts(s) :
            c > start /\ Cardinality({d \in Cuts(s) : start < d /\ d < c}) < MaxAhead}

\* demux(chunk): the next bytes of the stream
DemuxNext ==
  \E end \in ChunkEnds(stream, pos) : Demux(pos, end, FALSE, TRUE) /\ Untracked

\* demux(chunk, false, false): the next bytes of the stream, said not to follow
\* the bytes of the call before
DemuxNotContiguous ==
  \E end \in ChunkEnds(stream, pos) : Demux(pos, end, FALSE, FALSE) /\ Untracked

\* demux(chunk, true, contiguous): the stream was switched, and the caller
\* reads it again from its start
DemuxDiscontinuity ==
  \E end \in ChunkEnds(stream, 0), contiguous \in BOOLEAN :
    Demux(0, end, TRUE, contiguous) /\ Untracked

\* the start times handed to the fixer
StartTimes == {1000}

\* fix(startTime, discontinuity, contiguous), once after a call of demux that
\* returned: the fixer runs on the tracks, the fields of the demuxer stay
Fix ==
  /\ call.made
  /\ ~call.threw
  /\ ~call.fixed
  /\ \E startTime \in StartTimes, drained \in BOOLEAN :
       Tracks(FlvFixerFix(Self, startTime, drained))
  /\ call' = [call EXCEPT !.fixed = TRUE]
  /\ UNCHANGED <<headerParsed, remainingData, gopId, needAddMetaBeforeKeyFrameNal,
                 stream, pos, session, aliased, calc, reader, golomb>>

\* demuxAndFix returns: demux returned r and fix ran behind it; when demux
\* threw, fix did not run
ReturnsFixed(chunk, end, r, startTime, drained) ==
  IF r.threw THEN Returns(chunk, end, FALSE, TRUE, r)
  ELSE ReturnsWith(chunk, end, FALSE, TRUE, r, FlvFixerFix(r.self, startTime, drained), TRUE)

\* demuxAndFix(chunk, false, true, startTime): demux on the next bytes of the
\* stream, then fix
DemuxAndFix ==
  \E end \in ChunkEnds(stream, pos), startTime \in StartTimes, drained \in BOOLEAN :
    /\ ReturnsFixed(SubSeq(stream, pos + 1, end), end,
                    demux(Self, SubSeq(stream, pos + 1, end), FALSE, TRUE),
                    startTime, drained)
    /\ Untracked

Next == DemuxNext \/ DemuxNotContiguous \/ DemuxDiscontinuity \/ Fix \/ DemuxAndFix

Spec == Init /\ [][Next]_vars

\* ------------------------------------------------------------------------
\* A stream handed over in two chunks: demux(A), then demux(B), S = A || B,
\* with the default arguments, on a new demuxer
\* ------------------------------------------------------------------------

\* demux(A): the first split bytes of the stream
ChunkFirst ==
  /\ session.calls = 0
  /\ \E split \in 0..Len(stream) : Demux(0, split, FALSE, TRUE) /\ Tracked

\* demux(B): the rest of the stream
ChunkSecond ==
  /\ session.calls = 1
  /\ Demux(pos, Len(stream), FALSE, TRUE)
  /\ Tracked

NextChunk == ChunkFirst \/ ChunkSecond

SpecChunk == Init /\ [][NextChunk]_vars

\* ------------------------------------------------------------------------
\* A caller that uses its buffer again after demux returned
\* ------------------------------------------------------------------------

\* the bytes of a view after the array under it was filled with zeros
Overwritten(view) == [i \in 1..Len(view) |-> 0]

\* a view after the array under it was filled with zeros, when it is a view
\* on that array
OverwrittenIf(view, isView) == IF isView THEN Overwritten(view) ELSE view

\* a list of views, all on the array or none
OverwrittenAll(views, isView) ==
  [k \in 1..Len(views) |-> OverwrittenIf(views[k], isView)]

\* the call c parsed the caller's own array: it put no remainder in front of
\* it, which would have made a new array
ParsedInPlace(c) ==
  c.discontinuity \/ ~c.contiguous \/ Len(c.before.remainingData) = 0

\* bodyData of the tag recorded in e
TagBody(c, e) == Subarray(c.data, e.offset + 11, e.offset + 11 + e.dataSize)

\* the configuration record _parseVideo parsed from the body of a tag, Null
\* when it parsed none
TagConfig(tagType, body) ==
  IF tagType # 9 \/ Len(body) < 6 THEN Null
  ELSE IF body[1] % 16 \notin {7, 12} \/ body[2] # 0 THEN Null
  ELSE IF body[1] % 16 = 12
  THEN parseHEVCDecoderConfigurationRecord(SubarrayFrom(body, 5))
  ELSE parseAVCDecoderConfigurationRecord(SubarrayFrom(body, 5))

\* the record ret made _parseVideo put a new array in track.sps, track.pps or
\* track.vps: arr is spsArr, ppsArr or vpsArr
StoresArray(ret, arr) == ret # Null /\ Len(ret[arr]) > 0

\* the array of the track, as it is before tag i of the call, was stored by a
\* tag of this call: its units are views on the data of the call
MadeInCall(c, i, arr) ==
  \E j \in 1..(i - 1) :
    StoresArray(TagConfig(c.trace[j].tagType, TagBody(c, c.trace[j])), arr)

\* what _checkAddMetaNalToUnits put in front of the units of the sample of
\* tag e: the latch stays set only where it does
MetaNals(e) ==
  IF e.latchBefore /\ e.latchAfter
  THEN [vps |-> FirstOf(e.vpsBefore), sps |-> FirstOf(e.spsBefore),
        pps |-> FirstOf(e.ppsBefore)]
  ELSE [vps |-> <<>>, sps |-> <<>>, pps |-> <<>>]

\* for each unit of the sample of tag i, whether it is a view on the data of
\* the call: the units parseAvcC cut from the body are, track.vps[0],
\* track.sps[0] and track.pps[0] are when a tag of this call stored them
UnitIsView(c, i, m, units) ==
  [k \in 1..Len(m.vps) |-> MadeInCall(c, i, "vpsArr")]
    \o [k \in 1..Len(m.sps) |-> MadeInCall(c, i, "spsArr")]
    \o [k \in 1..Len(m.pps) |-> MadeInCall(c, i, "ppsArr")]
    \o [k \in 1..(Len(units) - Len(m.vps) - Len(m.sps) - Len(m.pps)) |-> TRUE]

UnitsOverwritten(units, isView) ==
  [k \in 1..Len(units) |-> OverwrittenIf(units[k], isView[k])]

\* the parsed SEI of a unit: its payload is a view on the unit when
\* NALu.removeEPB found nothing to remove and gave the unit back
SeiOverwritten(sei, unit, isView) ==
  IF isView /\ removeEPB(unit) = unit
  THEN [sei EXCEPT !.data.payload = Overwritten(@)]
  ELSE sei

\* the SeiSamples of the units of a sample, in unit order, from unit k on; seis
\* are the samples of the tag that are left to match
RECURSIVE SeisOverwritten(_, _, _, _, _)
SeisOverwritten(seis, units, isView, isHevc, k) ==
  IF k > Len(units) \/ Len(seis) = 0 THEN <<>>
  ELSE IF IsSeiNal(isHevc, NalType(isHevc, units[k]))
  THEN <<SeiOverwritten(Head(seis), units[k], isView[k])>>
         \o SeisOverwritten(Tail(seis), units, isView, isHevc, k + 1)
  ELSE SeisOverwritten(seis, units, isView, isHevc, k + 1)

\* the video samples the tags of the call made, from tag i on
RECURSIVE VideoOverwritten(_, _)
VideoOverwritten(c, i) ==
  IF i > Len(c.trace) THEN <<>>
  ELSE (IF Len(c.trace[i].video) = 0 THEN <<>>
        ELSE <<[c.trace[i].video[1] EXCEPT
                  !.units = UnitsOverwritten(@, UnitIsView(c, i, MetaNals(c.trace[i]), @))]>>)
         \o VideoOverwritten(c, i + 1)

\* the SEI samples the tags of the call made, from tag i on
RECURSIVE SeiSamplesOverwritten(_, _)
SeiSamplesOverwritten(c, i) ==
  IF i > Len(c.trace) THEN <<>>
  ELSE (IF Len(c.trace[i].video) = 0 THEN <<>>
        ELSE SeisOverwritten(c.trace[i].sei, c.trace[i].video[1].units,
                             UnitIsView(c, i, MetaNals(c.trace[i]),
                                        c.trace[i].video[1].units),
                             TagBody(c, c.trace[i])[1] % 16 = 12, 1))
         \o SeiSamplesOverwritten(c, i + 1)

\* the last n of a list
LastOf(list, n) == SubSeq(list, Len(list) - n + 1, Len(list))

\* the video track after the buffer of call c was filled with zeros: its
\* samples are the last the call made, its parameter sets are views when the
\* call stored them
VideoTrackOverwritten(track, c) ==
  [track EXCEPT
     !.samples = LastOf(VideoOverwritten(c, 1), Len(@)),
     !.sps = OverwrittenAll(@, MadeInCall(c, Len(c.trace) + 1, "spsArr")),
     !.pps = OverwrittenAll(@, MadeInCall(c, Len(c.trace) + 1, "ppsArr")),
     !.vps = OverwrittenAll(@, MadeInCall(c, Len(c.trace) + 1, "vpsArr"))]

\* the audio track: the data of each sample is data.subarray(1) or
\* data.subarray(2) of a tag body
AudioTrackOverwritten(track) ==
  [track EXCEPT
     !.samples = [k \in 1..Len(@) |-> [@[k] EXCEPT !.data = Overwritten(@)]]]

\* the metadata track: AMF.parse gives values, not views
MetadataTrackOverwritten(track, c) ==
  [track EXCEPT !.seiSamples = LastOf(SeiSamplesOverwritten(c, 1), Len(@))]

\* the caller fills the buffer it gave to the last call with zeros: what the
\* demuxer holds as views on that buffer shows the new bytes: the remainder,
\* the data of the samples, the parameter sets
CallerOverwrites ==
  /\ call.made
  /\ ~call.overwritten
  /\ Len(call.chunk) > 0
  /\ call' = [call EXCEPT !.overwritten = TRUE]
  /\ remainingData' = OverwrittenIf(remainingData, aliased)
  /\ videoTrack' = IF ParsedInPlace(call) THEN VideoTrackOverwritten(videoTrack, call)
                   ELSE videoTrack
  /\ audioTrack' = IF ParsedInPlace(call) THEN AudioTrackOverwritten(audioTrack)
                   ELSE audioTrack
  /\ metadataTrack' = IF ParsedInPlace(call)
                      THEN MetadataTrackOverwritten(metadataTrack, call)
                      ELSE metadataTrack
  /\ UNCHANGED <<headerParsed, gopId, needAddMetaBeforeKeyFrameNal, stream, pos,
                 session, aliased, calc, reader, golomb>>

NextReuse == DemuxNext \/ CallerOverwrites

SpecReuse == Init /\ [][NextReuse]_vars

\* ------------------------------------------------------------------------
\* The static and pure functions of the demuxer, called on their own
\* ------------------------------------------------------------------------

\* bytes at the ends and in the middle of 0..255, on both sides of the sign bit
ByteSamples == {0, 1, 127, 128, 254, 255}

\* an 11-byte tag header of a video tag with the four timestamp bytes: the low
\* 24 bits at offsets 4..6, the extension byte at offset 7
TimedTagHeader(high, mid, low, ext) == <<9, 0, 0, 0, high, mid, low, ext, 0, 0, 0>>

\* the demuxer and the bit reader stay as they are
OnlyCalc == UNCHANGED <<headerParsed, remainingData, gopId, needAddMetaBeforeKeyFrameNal,
                        videoTrack, audioTrack, metadataTrack, stream, pos, call,
                        session, aliased, reader, golomb>>

\* the timestamp of a tag is computed from its header; each behaviour follows
\* one call
Timestamp ==
  \E high \in ByteSamples, mid \in ByteSamples, low \in ByteSamples, ext \in ByteSamples :
    /\ calc = NoCalc
    /\ calc' = [op |-> "timestamp",
                in |-> TimedTagHeader(high, mid, low, ext),
                out |-> TagTimestamp32(TimedTagHeader(high, mid, low, ext), 0)]
    /\ OnlyCalc

\* timestamps of the tags whose composition time is looked at
TimeSamples == {0, 5, 16777219}

\* an AVC video tag with one NAL unit behind a 4-byte length, and the three
\* bytes of its composition time
CtsTag(ts, b2, b3, b4) ==
  FlvTag(9, ts, <<39, 1, b2, b3, b4>> \o Nal(4, <<65, 8>>))

\* a new demuxer is given the body of one video tag with NAL units, as the tag
\* loop gives it: what is kept is the sample it appended
CompositionTime ==
  \E b2 \in ByteSamples, b3 \in ByteSamples, b4 \in ByteSamples, ts \in TimeSamples :
    /\ calc = NoCalc
    /\ calc' = [op |-> "cts",
                in |-> CtsTag(ts, b2, b3, b4),
                out |-> DemuxTag(NewFlvDemuxer, CtsTag(ts, b2, b3, b4), 0).videoTrack.samples]
    /\ OnlyCalc

\* buffers handed to probe: a signature, right or wrong in one byte, the flags,
\* a header length of small bytes, and every prefix of these ten bytes
ProbeInputs ==
  {SubSeq(sig \o <<5, l0, l1, l2, l3, 0>>, 1, n) :
     sig \in {<<70, 76, 86, 1>>, <<71, 76, 86, 1>>, <<70, 77, 86, 1>>,
              <<70, 76, 87, 1>>, <<70, 76, 86, 2>>},
     l0 \in {0, 1}, l1 \in {0, 1}, l2 \in {0, 1}, l3 \in {0, 8, 9},
     n \in 0..10}

\* FlvDemuxer.probe(data) is called
Probe ==
  \E data \in ProbeInputs :
    /\ calc = NoCalc
    /\ calc' = [op |-> "probe", in |-> data, out |-> probe(data)]
    /\ OnlyCalc

NextPure == Timestamp \/ CompositionTime \/ Probe

InitPure ==
  /\ NewDemuxer
  /\ stream = <<>>
  /\ calc = NoCalc
  /\ reader = NoReader
  /\ golomb = NoGolomb

SpecPure == InitPure /\ [][NextPure]_vars

\* ------------------------------------------------------------------------
\* ExpGolomb, the bit reader (utils/exp-golomb)
\*
\* The 32-bit word is held in two halves of 16 bits, and so is a number that
\* a call returns, like the timestamp.
\* ------------------------------------------------------------------------

\* Math.min(a, b)
Min(a, b) == IF a < b THEN a ELSE b

\* word << n: the shift count is taken modulo 32
ShiftLeft32(word, n) ==
  IF n % 32 >= 16
  THEN [hi |-> (word.lo % 2^(32 - (n % 32))) * 2^((n % 32) - 16), lo |-> 0]
  ELSE [hi |-> (word.hi % 2^(16 - (n % 32))) * 2^(n % 32)
                 + (word.lo \div 2^(16 - (n % 32))),
        lo |-> (word.lo % 2^(16 - (n % 32))) * 2^(n % 32)]

\* word >>> n: the shift count is taken modulo 32
ShiftRight32(word, n) ==
  IF n % 32 >= 16
  THEN [hi |-> 0, lo |-> word.hi \div 2^((n % 32) - 16)]
  ELSE [hi |-> word.hi \div 2^(n % 32),
        lo |-> (word.hi % 2^(n % 32)) * 2^(16 - (n % 32)) + (word.lo \div 2^(n % 32))]

\* a | b
Or32(a, b) ==
  [hi |-> a.hi + b.hi - BitAnd(a.hi, b.hi), lo |-> a.lo + b.lo - BitAnd(a.lo, b.lo)]

\* word & (0x80000000 >>> n), n in 0..31: bit n of the word, from its top
BitAt(word, n) ==
  IF n < 16 THEN (word.hi \div 2^(15 - n)) % 2 ELSE (word.lo \div 2^(31 - n)) % 2

\* the number that 32 bits are as the result of >>>: unsigned
Unsigned32(word) == word

\* the number that 32 bits are as the result of << or |: signed
Signed32(word) ==
  [hi |-> IF word.hi >= 32768 THEN word.hi - 65536 ELSE word.hi, lo |-> word.lo]

\* the 32 bits a bit operator takes of a number
ToBits32(w) == [hi |-> w.hi % 65536, lo |-> w.lo]

\* -1 * w
Negate(w) ==
  [hi |-> IF w.lo = 0 THEN 0 - w.hi ELSE 0 - w.hi - 1, lo |-> (65536 - w.lo) % 65536]

\* new DataView(workingBytes.buffer).getUint32(0): up to four bytes in a
\* buffer of four, the rest of it 0
WordOf(bytes) ==
  [hi |-> ToInt(At(bytes, 0)) * 256 + ToInt(At(bytes, 1)),
   lo |-> ToInt(At(bytes, 2)) * 256 + ToInt(At(bytes, 3))]

\* what a method gives: the reader after it, whether it threw, its value
Gives(r, threw, val) == [reader |-> r, threw |-> threw, val |-> val]

\* _loadWord from its test of availableBytes on
LoadWordFrom(r, availableBytes) ==
  IF availableBytes = 0 THEN Gives(r, TRUE, Wide(0))
  ELSE Gives([r EXCEPT
                !.word = WordOf(Subarray(r.data, Len(r.data) - r.bytesAvailable,
                                         Len(r.data) - r.bytesAvailable + availableBytes)),
                !.bitsAvailable = availableBytes * 8,
                !.bytesAvailable = @ - availableBytes],
             FALSE, Wide(0))

\* a load that would go on with an empty word when no byte is left
loadWordNoThrow(r) ==
  Gives([r EXCEPT
           !.word = WordOf(Subarray(r.data, Len(r.data) - r.bytesAvailable,
                                    Len(r.data) - r.bytesAvailable
                                      + Min(4, r.bytesAvailable))),
           !.bitsAvailable = Min(4, r.bytesAvailable) * 8,
           !.bytesAvailable = @ - Min(4, r.bytesAvailable)],
        FALSE, Wide(0))

\* _loadWord(): throws 'No bytes available' when no byte is left
loadWord(r) == LoadWordFrom(r, Min(4, r.bytesAvailable))

\* new ExpGolomb(data), data a Uint8Array
NewExpGolomb(data) ==
  IF Len(data) # 0
  THEN loadWord([data |-> data, bytesAvailable |-> Len(data), bitsAvailable |-> 0,
                 word |-> Wide(0)]).reader
  ELSE [data |-> data, bytesAvailable |-> 0, bitsAvailable |-> 0, word |-> Wide(0)]

\* skipBits, behind its _loadWord: the word is shifted by the bits left to skip
SkipBitsLoaded(l, count) ==
  IF l.threw THEN l
  ELSE Gives([l.reader EXCEPT !.word = ShiftLeft32(@, count),
                              !.bitsAvailable = @ - count],
             FALSE, Wide(0))

\* skipBits, the else branch, count less the bits of the word: whole bytes are
\* skipped, a word is loaded, the bits left are skipped in it
SkipBitsBeyond(r, count) ==
  SkipBitsLoaded(loadWord([r EXCEPT !.bytesAvailable = @ - (count \div 8)]),
                 count - (count \div 8) * 8)

\* skipBits(count)
skipBits(r, count) ==
  IF r.bitsAvailable > count
  THEN Gives([r EXCEPT !.word = ShiftLeft32(@, count), !.bitsAvailable = @ - count],
             FALSE, Wide(0))
  ELSE SkipBitsBeyond(r, count - r.bitsAvailable)

RECURSIVE readBits(_, _)

\* readBits: (val << bits) | this.readBits(bits), sub what the inner call gave
ReadBitsJoin(val, bits, sub) ==
  IF sub.threw THEN sub
  ELSE Gives(sub.reader, FALSE, Signed32(Or32(ShiftLeft32(val, bits), ToBits32(sub.val))))

\* readBits, behind the update of the word: bits are left to read
ReadBitsRest(val, r, bits) ==
  IF bits > 0 /\ r.bitsAvailable # 0
  THEN ReadBitsJoin(val, bits, readBits(r, bits))
  ELSE Gives(r, FALSE, Unsigned32(val))

\* readBits, the update of the reader after bits of the word were taken
ReadBitsAdvance(r, bits) ==
  IF r.bitsAvailable - bits > 0
  THEN [r EXCEPT !.bitsAvailable = @ - bits, !.word = ShiftLeft32(@, bits)]
  ELSE IF r.bytesAvailable > 0
  THEN loadWord([r EXCEPT !.bitsAvailable = @ - bits]).reader
  ELSE [r EXCEPT !.bitsAvailable = @ - bits]

\* readBits, with bits = Math.min(this._bitsAvailable, size)
ReadBitsTake(r, size, bits) ==
  ReadBitsRest(ShiftRight32(r.word, 32 - bits), ReadBitsAdvance(r, bits), size - bits)

\* readBits(size): throws 'Cannot read more than 32 bits'
readBits(r, size) ==
  IF size > 32 THEN Gives(r, TRUE, Wide(0))
  ELSE ReadBitsTake(r, size, Min(r.bitsAvailable, size))

\* skipLZ, its loop from leadingZeroCount on: whether it met a 1 bit, and the
\* count it stopped at
RECURSIVE SkipLZLoop(_, _)
SkipLZLoop(r, leadingZeroCount) ==
  IF leadingZeroCount < r.bitsAvailable
  THEN IF BitAt(r.word, leadingZeroCount) # 0
       THEN [found |-> TRUE, leadingZeroCount |-> leadingZeroCount]
       ELSE SkipLZLoop(r, leadingZeroCount + 1)
  ELSE [found |-> FALSE, leadingZeroCount |-> leadingZeroCount]

\* skipLZ, a 1 bit was met behind leadingZeroCount bits 0
SkipLZFound(r, leadingZeroCount) ==
  [r EXCEPT !.word = ShiftLeft32(@, leadingZeroCount),
            !.bitsAvailable = @ - leadingZeroCount]

\* readUEG: this.readBits(clz + 1) - 1
ReadUEGValue(x) == IF x.threw THEN x ELSE Gives(x.reader, FALSE, Plus(x.val, -1))

\* readEG, on the value of readUEG: (1 + val) >>> 1 when it is odd,
\* -1 * (val >>> 1) when it is even
SignedValue(val) ==
  IF val.lo % 2 = 1
  THEN Unsigned32(ShiftRight32(ToBits32(Plus(val, 1)), 1))
  ELSE Negate(Unsigned32(ShiftRight32(ToBits32(val), 1)))

ReadEGValue(x) == IF x.threw THEN x ELSE Gives(x.reader, FALSE, SignedValue(x.val))

\* skipUEG, readUEG and readEG behind the return of skipLZ, which gave clz
AfterSkipLZ(op, r, clz) ==
  IF op = "skipUEG" THEN skipBits(r, 1 + clz)
  ELSE IF op = "readUEG" THEN ReadUEGValue(readBits(r, clz + 1))
  ELSE ReadEGValue(ReadUEGValue(readBits(r, clz + 1)))

\* the data of the readers: none, all bits 1, all bits 0, a 1 bit behind 39
\* and behind 31 bits 0, short codes
GolombInputs ==
  {<<>>,
   <<255, 255, 255, 255, 255>>,
   <<0, 0, 0, 0, 0>>,
   <<0, 0, 0, 0, 1, 128>>,
   <<0, 0, 0, 1, 255, 255, 255, 254>>,
   <<166, 66, 152, 226, 4>>}

\* the sizes given to readBits
ReadSizes == {1, 2, 7, 8, 16, 24, 31, 32, 33}

\* the counts given to skipBits
SkipCounts == {1, 3, 8, 32}

\* the counts given to skipScalingList
ScalingCounts == {2, 16}

\* how far below 0 the model follows the counters of the reader
MaxUnderflow == 8

InitGolomb ==
  /\ NewDemuxer
  /\ stream = <<>>
  /\ calc = NoCalc
  /\ \E data \in GolombInputs : reader = NewExpGolomb(data)
  /\ golomb = NoGolomb

\* the demuxer stays as it is
OnlyGolomb == UNCHANGED <<headerParsed, remainingData, gopId, needAddMetaBeforeKeyFrameNal,
                          videoTrack, audioTrack, metadataTrack, stream, pos, call,
                          session, aliased, calc>>

\* no call on the reader is running, and its counters are not further below 0
\* than the model follows them
Idle ==
  /\ golomb.pc \in {"done", "threw"}
  /\ reader.bitsAvailable >= 0 - MaxUnderflow
  /\ reader.bytesAvailable >= 0 - MaxUnderflow

\* the record of a call that ended with x: it returned or it threw
Ended(op, arg, before, x) ==
  [op |-> op, arg |-> arg, before |-> before,
   pc |-> IF x.threw THEN "threw" ELSE "done", count |-> 0, out |-> x.val]

\* a call on the reader ends with x
Ends(op, arg, before, x) ==
  /\ reader' = x.reader
  /\ golomb' = Ended(op, arg, before, x)
  /\ OnlyGolomb

\* readBits(size)
ReadBits ==
  \E size \in ReadSizes : Idle /\ Ends("readBits", size, reader, readBits(reader, size))

\* skipBits(count)
SkipBits ==
  \E count \in SkipCounts : Idle /\ Ends("skipBits", count, reader, skipBits(reader, count))

\* a method that starts with skipLZ is called
Begins(op) ==
  /\ Idle
  /\ golomb' = [op |-> op, arg |-> 0, before |-> reader, pc |-> "skipLZ", count |-> 0,
                out |-> Wide(0)]
  /\ UNCHANGED reader
  /\ OnlyGolomb

SkipLZ == Begins("skipLZ")

SkipUEG == Begins("skipUEG")

ReadUEG == Begins("readUEG")

ReadEG == Begins("readEG")

\* skipLZ, no 1 bit in the word: _loadWord() threw, or skipLZ is entered again
\* with leadingZeroCount added to what it will return
SkipLZAgain(g, l, leadingZeroCount) ==
  [reader |-> l.reader,
   golomb |-> IF l.threw THEN [g EXCEPT !.pc = "threw"]
              ELSE [g EXCEPT !.count = @ + leadingZeroCount]]

\* skipLZ, a 1 bit in the word: skipLZ returns clz, to its caller when it was
\* called by skipUEG, readUEG or readEG
SkipLZReturns(g, r, clz) ==
  [reader |-> r,
   golomb |-> IF g.op = "skipLZ" THEN Ended(g.op, 0, g.before, Gives(r, FALSE, Wide(clz)))
              ELSE [g EXCEPT !.pc = "returned", !.count = clz]]

\* one pass through skipLZ behind its loop, which gave s: the reader and the
\* record of the call after it
SkipLZPass(r, g, s) ==
  IF s.found
  THEN SkipLZReturns(g, SkipLZFound(r, s.leadingZeroCount), g.count + s.leadingZeroCount)
  ELSE SkipLZAgain(g, loadWord(r), s.leadingZeroCount)

\* the reader and the record of the call become those of n
SkipLZPassed(n) ==
  /\ reader' = n.reader
  /\ golomb' = n.golomb
  /\ OnlyGolomb

\* a pass through skipLZ whose load goes on with an empty word when no byte
\* is left
SkipLZStepNoThrow ==
  /\ golomb.pc = "skipLZ"
  /\ SkipLZPassed(IF SkipLZLoop(reader, 0).found
                  THEN SkipLZPass(reader, golomb, SkipLZLoop(reader, 0))
                  ELSE SkipLZAgain(golomb, loadWordNoThrow(reader),
                                   SkipLZLoop(reader, 0).leadingZeroCount))

\* the running call goes once through skipLZ
SkipLZStep ==
  /\ golomb.pc = "skipLZ"
  /\ SkipLZPassed(SkipLZPass(reader, golomb, SkipLZLoop(reader, 0)))

\* skipUEG, readUEG or readEG goes on behind its call of skipLZ, to its end
SkipLZReturned ==
  /\ golomb.pc = "returned"
  /\ Ends(golomb.op, 0, golomb.before, AfterSkipLZ(golomb.op, reader, golomb.count))

\* the call that was made runs on
Runs == SkipLZStep \/ SkipLZReturned

\* readBool(): this.readBits(1) === 1
readBool(r) == Gives(readBits(r, 1).reader, FALSE, readBits(r, 1).val = Wide(1))

\* readUByte()
readUByte(r) == readBits(r, 8)

\* skipLZ inside another method, from its first pass to its end: it returned
\* to its caller or _loadWord() threw
RECURSIVE SkipLZRun(_)
SkipLZRun(n) ==
  IF n.golomb.pc = "skipLZ"
  THEN SkipLZRun(SkipLZPass(n.reader, n.golomb, SkipLZLoop(n.reader, 0)))
  ELSE n

\* readEG behind its skipLZ, which ended in n
ReadEGAfter(n) ==
  IF n.golomb.pc = "threw" THEN Gives(n.reader, TRUE, Wide(0))
  ELSE AfterSkipLZ("readEG", n.reader, n.golomb.count)

\* readEG(), called by another method: it runs to its end
readEG(r) ==
  ReadEGAfter(SkipLZRun([reader |-> r,
                         golomb |-> [op |-> "readEG", arg |-> 0, before |-> r,
                                     pc |-> "skipLZ", count |-> 0, out |-> Wide(0)]]))

\* skipScalingList, (lastScale + deltaScale + 256) % 256: the remainder has
\* the sign of the sum, and -0 is 0
NextScale(lastScale, deltaScale) ==
  LET sum == Plus(deltaScale, lastScale + 256)
  IN  IF sum.hi >= 0 THEN sum.lo % 256 ELSE 0 - ((256 - (sum.lo % 256)) % 256)

RECURSIVE SkipScalingListLoop(_, _, _, _, _)

\* skipScalingList, pass j of the loop behind its readEG, which gave x: a
\* throw ends the call, else nextScale and lastScale are set
SkipScalingListRead(x, j, count, lastScale, nextScale) ==
  IF x.threw THEN x
  ELSE SkipScalingListLoop(x.reader, j + 1, count,
                           IF nextScale = 0 THEN lastScale ELSE nextScale, nextScale)

\* skipScalingList, the loop from pass j on
SkipScalingListLoop(r, j, count, lastScale, nextScale) ==
  IF j >= count THEN Gives(r, FALSE, Wide(0))
  ELSE IF nextScale # 0
  THEN SkipScalingListRead(readEG(r), j, count, lastScale,
                           NextScale(lastScale, readEG(r).val))
  ELSE SkipScalingListLoop(r, j + 1, count, lastScale, nextScale)

\* skipScalingList(count)
skipScalingList(r, count) == SkipScalingListLoop(r, 0, count, 8, 8)

\* readBool()
ReadBool == Idle /\ Ends("readBool", 0, reader, readBool(reader))

\* readUByte()
ReadUByte == Idle /\ Ends("readUByte", 0, reader, readUByte(reader))

\* skipScalingList(count)
SkipScalingList ==
  \E count \in ScalingCounts :
    Idle /\ Ends("skipScalingList", count, reader, skipScalingList(reader, count))

NextGolomb ==
  \/ ReadBits \/ SkipBits \/ SkipLZ \/ SkipUEG \/ ReadUEG \/ ReadEG \/ Runs
  \/ ReadBool \/ ReadUByte \/ SkipScalingList

SpecGolomb == InitGolomb /\ [][NextGolomb]_vars

\* skipLZ, once entered, runs on: JavaScript runs a function to its end
SpecGolombRuns == SpecGolomb /\ WF_vars(SkipLZStep)

\* ------------------------------------------------------------------------
\* Properties
\* ------------------------------------------------------------------------


\* the tags of the last call, by position in its record
Tags == 1..Len(call.trace)

\* the body of a recorded tag, read from the data of the call
BodyOf(e) == Subarray(call.data, e.offset + 11, e.offset + 11 + e.dataSize)

\* a recorded tag is a video tag that carries NAL units of the given codec
IsNaluTag(e, codecId) ==
  /\ e.tagType = 9
  /\ e.dataSize >= 6
  /\ BodyOf(e)[1] % 16 = codecId
  /\ BodyOf(e)[2] = 1

\* the units of the tag itself, split by the length size in force before it
OwnUnits(e) == parseAvcC(SubarrayFrom(BodyOf(e), 5), e.nalUnitSizeBefore)

\* the HEVC type of a unit: bits 1..6 of its first byte
HevcType(unit) == (unit[1] \div 2) % 64

HasVps(units) == \E i \in 1..Len(units) : HevcType(units[i]) = 32

\* the first entry of a parameter set list, nothing when the list is empty
FirstIfAny(arr) == IF Len(arr) = 0 THEN <<>> ELSE <<arr[1]>>

\* an HEVC tag with NAL units, met with the latch set, without a VPS of its
\* own, that gave a sample
HevcInsertionCase(e) ==
  /\ IsNaluTag(e, 12)
  /\ e.latchBefore
  /\ ~HasVps(OwnUnits(e))
  /\ e.video # <<>>

\* the sample lists a whole run returns
Lists(video, audio, script, sei) ==
  [video |-> video, audio |-> audio, script |-> script, sei |-> sei]

\* the two calls of the session gave what the one call whole on all the stream
\* gives: they did not throw if it does not, and their lists, one after the
\* other, are its lists
SameAsWhole(whole) ==
  ~whole.threw =>
    /\ ~session.threw
    /\ Lists(session.video, session.audio, session.script, session.sei)
         = Lists(whole.self.videoTrack.samples, whole.self.audioTrack.samples,
                 whole.self.metadataTrack.flvScriptSamples,
                 whole.self.metadataTrack.seiSamples)

\* C1: for a stream S = A || B split at any byte offset, demux(A) then
\* demux(B) on a new demuxer return, one after the other, the sample lists
\* that demux(S) returns on a new demuxer.
C1_ChunkingIndependence ==
  session.calls = 2 => SameAsWhole(demux(NewFlvDemuxer, stream, FALSE, TRUE))

\* C2: when an HEVC tag with NAL units is met with the latch set and none of
\* its units is a VPS, the units of its sample are the first VPS, the first
\* SPS and the first PPS of the track, in that order, those absent left out,
\* and then the units of the tag in their order.
C2_HevcPreInsertion ==
  \A i \in Tags :
    LET e == call.trace[i]
    IN  HevcInsertionCase(e) =>
          e.video[1].units
            = FirstIfAny(e.vpsBefore) \o FirstIfAny(e.spsBefore)
                \o FirstIfAny(e.ppsBefore) \o OwnUnits(e)

\* C2, its case: a sample that got a VPS, an SPS and a PPS in front of its unit
C2_Witness ==
  \E i \in Tags :
    LET e == call.trace[i]
    IN  /\ HevcInsertionCase(e)
        /\ Len(e.vpsBefore) > 0 /\ Len(e.spsBefore) > 0 /\ Len(e.ppsBefore) > 0
        /\ Len(OwnUnits(e)) = 1
        /\ Len(e.video[1].units) = 4

\* C3: once an HEVC tag had the parameter sets put in front of its units, the
\* latch is cleared: a later HEVC tag without a VPS keeps its own units only.
C3_LatchClearedByInsertion ==
  \A i \in Tags, j \in Tags :
    LET e == call.trace[i]
        f == call.trace[j]
    IN  (/\ i < j
         /\ HevcInsertionCase(e)
         /\ Len(e.video[1].units) > Len(OwnUnits(e))
         /\ IsNaluTag(f, 12) /\ ~HasVps(OwnUnits(f)) /\ f.video # <<>>)
          => f.video[1].units = OwnUnits(f)

\* the frame type of a recorded video tag
FrameTypeOf(e) == BodyOf(e)[1] \div 16

\* a unit of the sample of the tag is an IDR slice of AVC (5) or an IRAP
\* slice of HEVC (16..23)
HasKeyUnit(e) ==
  \E k \in 1..Len(e.video[1].units) :
    LET unit == e.video[1].units[k]
    IN  \/ IsNaluTag(e, 7) /\ unit[1] % 32 = 5
        \/ IsNaluTag(e, 12) /\ HevcType(unit) \in 16..23

\* the sample of the tag is a keyframe, told from the bytes of the tag
KeyframeTag(e) == e.video # <<>> /\ (FrameTypeOf(e) = 1 \/ HasKeyUnit(e))

\* the gop counter along the tags of a call: it starts at first, each tag
\* leaves it alone or, for a keyframe sample, adds one, and the sample gets
\* the counter after its tag
GopChain(trace, first, last) ==
  /\ last = IF Len(trace) = 0 THEN first ELSE trace[Len(trace)].gopAfter
  /\ \A i \in 1..Len(trace) :
       LET e == trace[i]
       IN  /\ e.gopBefore = IF i = 1 THEN first ELSE trace[i - 1].gopAfter
           /\ e.gopAfter = e.gopBefore + 1 \/ e.gopAfter = e.gopBefore
           /\ e.video # <<>> => e.video[1].gopId = e.gopAfter

\* a step of fix alone: the record of the last call of demux stays
FixAlone == call.made /\ call' = [call EXCEPT !.fixed = TRUE]

\* C4: a video sample is a keyframe when the frame type of its tag is 1 or
\* one of its units is an IDR slice (AVC) or an IRAP slice (HEVC); each
\* keyframe sample adds one to the gop counter, nothing else changes it, the
\* sample carries the counter after the addition, and the counter never
\* decreases from a call of demux to the next; fix leaves the counter alone.
C4_KeyframeGopId ==
  [][/\ gopId' >= gopId
     /\ FixAlone => gopId' = gopId
     /\ FixAlone \/ GopChain(call'.trace, gopId, gopId')
     /\ \A i \in 1..Len(call'.trace) :
          LET e == call'.trace[i]
              body == Subarray(call'.data, e.offset + 11, e.offset + 11 + e.dataSize)
              codecId == body[1] % 16
              key == /\ e.video # <<>>
                     /\ \/ body[1] \div 16 = 1
                        \/ \E k \in 1..Len(e.video[1].units) :
                             LET unit == e.video[1].units[k]
                             IN  \/ codecId = 7 /\ unit[1] % 32 = 5
                                 \/ codecId = 12 /\ HevcType(unit) \in 16..23
          IN  /\ e.video # <<>> => e.video[1].keyframe = key
              /\ e.gopAfter = e.gopBefore + (IF key THEN 1 ELSE 0)]_vars

\* C4, its case: after a restart that kept the counter, a tag of frame type 2
\* with an IDR unit gave a keyframe sample and the counter went up by one
C4_Witness ==
  /\ call.discontinuity
  /\ call.before.gopId >= 1
  /\ \E i \in Tags :
       LET e == call.trace[i]
       IN  /\ KeyframeTag(e)
           /\ FrameTypeOf(e) = 2
           /\ e.video[1].keyframe
           /\ e.gopAfter = e.gopBefore + 1
           /\ e.video[1].gopId = gopId

\* the last call was demux(chunk, true, contiguous)
Restarted == call.made /\ call.discontinuity

\* a sequence is a suffix of another, the empty one and the other itself too
IsSuffix(r, d) == Len(r) <= Len(d) /\ r = SubSeq(d, Len(d) - Len(r) + 1, Len(d))

\* C5, as stated: after demux(data, true) the header is not parsed, whatever
\* the header state before the call.
C5_HeaderUnparsedAfterDiscontinuity ==
  Restarted => ~headerParsed

\* C5, amended: demux(data, true) forgets the header state and the remainder
\* of the calls before it, before it parses. It parses data alone; after it the
\* header is parsed exactly when data is not empty and passes probe; and what
\* it keeps as remainder is a suffix of data.
C5_DiscontinuityReset ==
  Restarted =>
    /\ call.data = call.chunk
    /\ headerParsed = (Len(call.chunk) > 0 /\ probe(call.chunk))
    /\ IsSuffix(remainingData, call.chunk)
    /\ call.threw = (Len(call.chunk) > 0 /\ ~probe(call.chunk))
    /\ headerParsed /\ Len(call.trace) > 0 => call.trace[1].offset = 13

\* C5, its case: the header was parsed and bytes were kept before the call,
\* and the call parsed the header of its own data again
C5_Witness ==
  /\ Restarted
  /\ call.before.headerParsed
  /\ Len(call.before.remainingData) > 0
  /\ headerParsed
  /\ Len(call.trace) > 0
  /\ Len(remainingData) > 0

\* the header was still to parse when the last call came to its data
HeaderPending == call.discontinuity \/ ~call.before.headerParsed

\* C6: demux throws on one condition only, with the message 'Invalid flv
\* file': the header is still to parse, the data is not empty and probe fails
\* on it. A call that throws parses no tag.
C6_SingleFatalError ==
  call.made =>
    /\ call.threw = (HeaderPending /\ Len(call.data) > 0 /\ ~probe(call.data))
    /\ call.threw => Len(call.trace) = 0 /\ ~headerParsed

\* C6, its case: a call that threw on data that fails probe, after a call
\* that had parsed the header
C6_Witness ==
  /\ call.made /\ call.threw /\ call.before.headerParsed
  /\ Len(call.data) > 0 /\ ~probe(call.data)

\* the warnings about the video track and about the audio track
VideoWarnings ==
  {"Unsupported codecId", "Cannot parse DecoderConfigurationRecord",
   "Cannot parse NALUs", "Unknown AVCPacketType"}

AudioWarnings ==
  {"Unsupported sound format", "Cannot parse AudioSpecificConfig",
   "Unknown AACPacketType"}

Warned(e, msgs) == \E k \in 1..Len(e.warned) : e.warned[k] \in msgs

\* C7: a tag that cannot be parsed (codec or format not supported, packet
\* type unknown, configuration or units that do not parse) does not stop the
\* call, and its warning is recorded in the warnings of the track concerned.
C7_WarningsOnTracks ==
  call.made =>
    \A i \in Tags :
      /\ Warned(call.trace[i], VideoWarnings) => Len(videoTrack.warnings) > 0
      /\ Warned(call.trace[i], AudioWarnings) => Len(audioTrack.warnings) > 0

\* the flags of the header of the stream
HeaderHasAudio == BitAnd(stream[5], 4) # 0

HeaderHasVideo == BitAnd(stream[5], 1) # 0

\* the last tag of the call gave a sample to the audio or to the video track
LastGave(kind) ==
  /\ Len(call.trace) > 0
  /\ Len(call.trace[Len(call.trace)][kind]) > 0

\* C8: when the header says a track is absent and the call met samples of
\* that track, the track is reset: the samples of a call are never returned
\* for a track the header says is absent.
C8_SelfHealingPresence ==
  (call.made /\ ~call.threw /\ headerParsed) =>
    /\ audioTrack.present = HeaderHasAudio
    /\ videoTrack.present = HeaderHasVideo
    /\ ~HeaderHasAudio => Len(audioTrack.samples) = 0
    /\ ~HeaderHasVideo => Len(videoTrack.samples) = 0
    /\ (~HeaderHasAudio /\ LastGave("audio")) => audioTrack = AudioTrackReset(audioTrack)
    /\ (~HeaderHasVideo /\ LastGave("video")) => videoTrack = VideoTrackReset(videoTrack)

\* C8, its case: the header says no audio, the call parsed an audio tag
\* that gave a sample, and the audio track comes back reset
C8_Witness ==
  /\ call.made /\ ~call.threw /\ headerParsed
  /\ ~HeaderHasAudio
  /\ LastGave("audio")
  /\ Len(audioTrack.samples) = 0
  /\ audioTrack.codec = ""

\* a whole tag starts the bytes: header, body and the size after it
StartsWithWholeTag(r) == Len(r) >= 15 /\ Len(r) >= 15 + Bits24(r, 1)

\* C9: when demux returns, every tag that is whole in the buffer has been
\* parsed: the bytes kept for the next call do not start with a whole tag.
C9_WholeTagsParsed ==
  (call.made /\ ~call.threw /\ headerParsed) => ~StartsWithWholeTag(remainingData)

\* the samples of one kind that the tags from the i-th on gave, in tag order
RECURSIVE Gather(_, _, _)
Gather(trace, kind, i) ==
  IF i > Len(trace) THEN <<>> ELSE trace[i][kind] \o Gather(trace, kind, i + 1)

\* the last tag that emptied the sample list of a track, 0 when none did
LastReset(trace, flag) ==
  LET resets == {i \in 1..Len(trace) : trace[i][flag]}
  IN  IF resets = {} THEN 0 ELSE CHOOSE i \in resets : \A k \in resets : k <= i

\* the samples a track returns: those of the tags after the last reset of the
\* track, in tag order, and none for a track the header says is absent
Returned(track, kind, flag) ==
  IF ~track.present THEN <<>>
  ELSE Gather(call.trace, kind, LastReset(call.trace, flag) + 1)

\* C10: the data a call parses is the remainder kept by the call before and
\* then the new data; its tags are met once each, in the order of their
\* offsets; and every list it returns (video samples, audio samples,
\* flvScriptSamples, seiSamples) holds the samples of the tags in the order of
\* the tags, each sample once, stamped with the time of its own tag; the
\* lists are those demux returned, before fix ran on them.
C10_Ordering ==
  (call.made /\ ~call.threw /\ ~call.fixed) =>
    /\ call.data = IF call.discontinuity \/ ~call.contiguous THEN call.chunk
                   ELSE call.before.remainingData \o call.chunk
    /\ \A i \in Tags :
         LET e == call.trace[i]
         IN  /\ i > 1 => e.offset = call.trace[i - 1].offset + 15 + call.trace[i - 1].dataSize
             /\ e.offset + 15 + e.dataSize <= Len(call.data)
             /\ \A k \in 1..Len(e.video) : e.video[k].dts = e.timestamp
             /\ \A k \in 1..Len(e.audio) : e.audio[k].pts = e.timestamp
             /\ \A k \in 1..Len(e.script) : e.script[k].pts = e.timestamp
             /\ \A k \in 1..Len(e.sei) : e.sei[k].pts = e.video[1].pts
    /\ videoTrack.samples = Returned(videoTrack, "video", "videoReset")
    /\ audioTrack.samples = Returned(audioTrack, "audio", "audioReset")
    /\ metadataTrack.flvScriptSamples = Gather(call.trace, "script", 1)
    /\ metadataTrack.seiSamples = Gather(call.trace, "sei", 1)

\* C10, its case: a call that parsed a kept remainder in front of new data and
\* returned several video samples and a SEI sample, the first video sample
\* from a tag that began in the remainder
C10_Witness ==
  /\ call.made /\ ~call.threw /\ ~call.fixed /\ ~call.discontinuity /\ call.contiguous
  /\ Len(call.before.remainingData) > 0
  /\ Len(call.chunk) > 0
  /\ Len(videoTrack.samples) >= 2
  /\ Len(metadataTrack.seiSamples) >= 1
  /\ call.trace[1].offset = 0
  /\ Len(call.trace[1].video) = 1
  /\ videoTrack.samples[1].dts < videoTrack.samples[2].dts

\* a whole tag lies in data at offset: its header, its body and the size after it
WholeTagAt(data, offset) ==
  /\ offset + 15 <= Len(data)
  /\ offset + 15 + Bits24(data, offset + 1) <= Len(data)

\* C11: behind every tag the call handled, whatever its type, whatever its
\* handler did with it and whatever the size after it says, the cursor is
\* 11 + dataSize + 4 further, and a whole tag that lies there is handled too.
C11_AnomaliesDoNotStopParsing ==
  (call.made /\ ~call.threw) =>
    \A i \in Tags :
      LET e == call.trace[i]
          next == e.offset + 11 + e.dataSize + 4
      IN  /\ i < Len(call.trace) => call.trace[i + 1].offset = next
          /\ WholeTagAt(call.data, next) => i < Len(call.trace)

\* a recorded tag is a video tag of a supported codec with a decoder
\* configuration record (packetType 0)
IsConfigTag(e) ==
  /\ e.tagType = 9
  /\ e.dataSize >= 6
  /\ BodyOf(e)[1] % 16 \in {7, 12}
  /\ BodyOf(e)[2] = 0

\* a recorded tag is a video tag of a codec that is not supported
IsUnsupportedCodecTag(e) ==
  /\ e.tagType = 9
  /\ e.dataSize >= 6
  /\ BodyOf(e)[1] % 16 \notin {7, 12}

\* the parameter sets a tag met: those the tag before it left, and for the
\* first tag those start
ParamsBefore(i, start) == IF i = 1 THEN start ELSE call.trace[i - 1].paramsAfter

\* the parameter sets along the tags of the last call, from start: a tag
\* changes them only if it holds a configuration record that parses, and
\* then hvcC only if it was not set, or if its codec is not supported, and
\* then they are reset
ParamsChain(start) ==
  \A i \in Tags :
    LET e == call.trace[i]
        met == ParamsBefore(i, start)
    IN  /\ met = [sps |-> e.spsBefore, pps |-> e.ppsBefore, vps |-> e.vpsBefore,
                  nalUnitSize |-> e.nalUnitSizeBefore, hvcC |-> e.hvcCBefore]
        /\ e.paramsAfter # met =>
             \/ /\ IsConfigTag(e)
                /\ ~Warned(e, {"Cannot parse DecoderConfigurationRecord"})
                /\ Len(met.hvcC) > 0 => e.paramsAfter.hvcC = met.hvcC
             \/ /\ IsUnsupportedCodecTag(e)
                /\ e.paramsAfter = ParamSets(NewVideoTrack)

\* the parameter sets behind the last tag of the call
ParamsAtEnd(start) ==
  IF Len(call.trace) = 0 THEN start ELSE call.trace[Len(call.trace)].paramsAfter

\* the video samples the tags of the call left in the track when the loop
\* ended: those behind the last reset of the track
VideoAtEnd == Gather(call.trace, "video", LastReset(call.trace, "videoReset") + 1)

\* the call met the header flag as the call before left it: with the header
\* parsed it starts at the first byte of its data and cannot throw, without
\* it the call probes its data and starts behind the header
HeaderMetAsLeft ==
  IF call.before.headerParsed
  THEN /\ headerParsed
       /\ ~call.threw
       /\ Len(call.trace) > 0 => call.trace[1].offset = 0
  ELSE /\ Len(call.data) = 0 => ~headerParsed /\ ~call.threw
       /\ call.threw => ~headerParsed /\ Len(call.trace) = 0
       /\ (Len(call.data) > 0 /\ ~call.threw) =>
            /\ headerParsed
            /\ call.offset >= Narrow(readBig32(call.data, 5)) + 4
            /\ Len(call.trace) > 0 =>
                 call.trace[1].offset = Narrow(readBig32(call.data, 5)) + 4

\* the lists of the tracks hold what the tags of this call gave and nothing
\* of the calls before, and the warnings of the tracks are empty
ListsOfThisCall ==
  /\ ~call.fixed =>
       /\ videoTrack.samples = Returned(videoTrack, "video", "videoReset")
       /\ audioTrack.samples = Returned(audioTrack, "audio", "audioReset")
       /\ metadataTrack.seiSamples = Gather(call.trace, "sei", 1)
       /\ metadataTrack.flvScriptSamples = Gather(call.trace, "script", 1)
  /\ videoTrack.warnings = <<>>
  /\ audioTrack.warnings = <<>>

\* C12: the fields sps, pps, vps, nalUnitSize and hvcC of the video track
\* change only when a video tag with a configuration record that parses is
\* handled (hvcC only if it was not set) or when the track is reset: by a
\* discontinuity, by a codec that is not supported, or after the loop because
\* the header says there is no video and the track holds parsed samples. A
\* call without discontinuity clears samples, seiSamples, flvScriptSamples and
\* warnings: what it returns holds nothing of the calls before; and what it
\* clears leaves the five fields, headerParsed and the gop counter as they
\* were: its first tag meets them as the call before left them.
C12_ParameterSetPersistence ==
  call.made =>
    LET start == IF call.discontinuity THEN ParamSets(NewVideoTrack)
                 ELSE call.before.params
    IN  /\ ParamsChain(start)
        /\ ParamSets(videoTrack) =
             IF ~videoTrack.present /\ Len(VideoAtEnd) > 0
             THEN ParamSets(NewVideoTrack)
             ELSE ParamsAtEnd(start)
        /\ ~call.discontinuity =>
             /\ ListsOfThisCall
             /\ HeaderMetAsLeft
             /\ Len(call.trace) > 0 => call.trace[1].gopBefore = call.before.gopId
             /\ Len(call.trace) = 0 => gopId = call.before.gopId

\* C12, its case: a call without discontinuity found a video sample of the
\* calls before in the track, with the header parsed, the parameter sets and
\* the hvcC set; it handled a second configuration record that holds a PPS
\* only, left the VPS, the SPS and the hvcC as they were, and returned a video
\* track without the sample it had found
C12_Witness ==
  /\ call.made /\ ~call.discontinuity /\ ~call.fixed
  /\ call.before.headerParsed
  /\ call.before.held.video > 0
  /\ Len(call.before.params.vps) > 0
  /\ Len(call.before.params.hvcC) > 0
  /\ Len(call.trace) > 0
  /\ IsConfigTag(call.trace[1])
  /\ videoTrack.vps = call.before.params.vps
  /\ videoTrack.sps = call.before.params.sps
  /\ videoTrack.hvcC = call.before.params.hvcC
  /\ videoTrack.pps # call.before.params.pps
  /\ videoTrack.nalUnitSize # call.before.params.nalUnitSize
  /\ Len(Gather(call.trace, "video", 1)) = 0
  /\ videoTrack.samples = <<>>

\* C13: the timestamp of a tag is the extension byte times 2^24 plus the low 24
\* bits, an unsigned number below 2^32: with an extension byte of 0x80 or more
\* it is not negative.  In two halves: the upper one is ext * 256 + the high
\* byte of the low 24 bits, the lower one is the other two bytes.
C13_TimestampUnsigned ==
  calc.op = "timestamp" =>
    /\ calc.out.hi = calc.in[8] * 256 + calc.in[5]
    /\ calc.out.lo = calc.in[6] * 256 + calc.in[7]
    /\ calc.out.hi \in 0..65535
    /\ calc.out.lo \in 0..65535

\* a timestamp with the top bit of the extension byte set was computed
C13_Witness ==
  /\ calc.op = "timestamp"
  /\ calc.in[8] >= 128
  /\ calc.in[5] >= 128
  /\ calc.out.hi >= 32768

\* C14: the composition time of a video tag is the 24-bit number v of its body
\* bytes 2..4 read as a signed number: v below 2^23, v - 2^24 from there on
\* (0xFFFFFE is -2).  The sample has the timestamp of the tag as dts and
\* dts + cts as pts.
C14_SignedCompositionTime ==
  calc.op = "cts" =>
    /\ Len(calc.out) = 1
    /\ calc.out[1].dts = TagTimestamp(calc.in, 0)
    /\ calc.out[1].pts = calc.out[1].dts
         + (IF Bits24(calc.in, 13) < 8388608 THEN Bits24(calc.in, 13)
            ELSE Bits24(calc.in, 13) - 16777216)

\* the sample of a tag with composition time 0xFFFFFE, two before its dts
C14_Witness ==
  /\ calc.op = "cts"
  /\ SubSeq(calc.in, 14, 16) = <<255, 255, 254>>
  /\ Len(calc.out) = 1
  /\ calc.out[1].dts = 16777219
  /\ calc.out[1].pts = 16777217

\* the buffer holds a whole 9-byte FLV header: the signature 'F' 'L' 'V' 1 and
\* a big-endian header length of 9 or more at offset 5
WellFormedHeader(data) ==
  /\ Len(data) >= 9
  /\ SubSeq(data, 1, 4) = <<70, 76, 86, 1>>
  /\ ((data[6] * 256 + data[7]) * 256 + data[8]) * 256 + data[9] >= 9

\* C15: probe gives true exactly on a buffer with a well-formed 9-byte header,
\* and false on every other buffer, those shorter than 9 bytes included
C15_ProbeWellFormed ==
  calc.op = "probe" => (calc.out <=> WellFormedHeader(calc.in))

\* C16: the remainder a call saves shares no storage with the buffer of the
\* caller: when the caller overwrites its buffer after demux returned, the
\* bytes the next call puts in front of its data stay what they were
C16_RemainderIsCopied ==
  [][(call'.overwritten /\ ~call.overwritten) => remainingData' = remainingData]_vars

\* C19: over calls of demux(chunk) that do not throw no byte is lost: after
\* each call the offset it reached is at most the length of its data (the
\* remainder of the call before and the chunk), and the bytes up to the offset
\* and the remainder it saved are together all of its data; so what the calls
\* consumed and the last remainder add up to the bytes fed
C19_ByteConservation ==
  (call.made /\ ~session.threw) =>
    /\ call.offset <= Len(call.data)
    /\ call.offset + Len(remainingData)
         = Len(call.before.remainingData) + Len(call.chunk)

\* an HEVC tag with NAL units that gave a sample of its own units only
KeepsOwnUnits(e) ==
  (IsNaluTag(e, 12) /\ e.video # <<>>) => e.video[1].units = OwnUnits(e)

\* C20: the latch is one-way.  Once needAddMetaBeforeKeyFrameNal is false no
\* step sets it back to true, a call with discontinuity and the track resets
\* included; and a call that starts with the latch cleared meets every tag
\* with the latch cleared and puts no parameter set in front of the units of
\* an HEVC tag.
C20_LatchOneWay ==
  /\ [][~needAddMetaBeforeKeyFrameNal => ~needAddMetaBeforeKeyFrameNal']_vars
  /\ []((call.made /\ ~call.before.needAddMetaBeforeKeyFrameNal) =>
          \A i \in Tags :
            /\ ~call.trace[i].latchBefore
            /\ ~call.trace[i].latchAfter
            /\ KeepsOwnUnits(call.trace[i]))

\* after the latch was cleared the stream is read again from its start with
\* discontinuity: the parameter sets are stored again, and an HEVC tag
\* without a VPS keeps its own units
C20_Witness ==
  /\ call.made /\ call.discontinuity
  /\ ~call.before.needAddMetaBeforeKeyFrameNal
  /\ ~needAddMetaBeforeKeyFrameNal
  /\ \E i \in Tags :
       /\ IsNaluTag(call.trace[i], 12)
       /\ ~HasVps(OwnUnits(call.trace[i]))
       /\ Len(call.trace[i].vpsBefore) > 0
       /\ call.trace[i].video # <<>>
       /\ call.trace[i].video[1].units = OwnUnits(call.trace[i])

\* bit i of the k bits of n, the most significant first
BitOf(n, k, i) == (n \div 2^(k - i)) % 2

\* the number of up to 16 bits
RECURSIVE BitsValue(_)
BitsValue(bits) ==
  IF Len(bits) = 0 THEN 0
  ELSE 2 * BitsValue(SubSeq(bits, 1, Len(bits) - 1)) + bits[Len(bits)]

\* the 32 bits of a word, the most significant first
WordBits(word) ==
  [i \in 1..32 |-> IF i <= 16 THEN BitOf(word.hi, 16, i) ELSE BitOf(word.lo, 16, i - 16)]

\* the bits of the data, the most significant bit of each byte first
AllBits(data) ==
  [i \in 1..(8 * Len(data)) |-> BitOf(data[((i - 1) \div 8) + 1], 8, ((i - 1) % 8) + 1)]

\* the bits the reader has not given yet: those of its word and of the bytes
\* behind it
BitsLeft(r) == r.bitsAvailable + 8 * r.bytesAvailable

\* the position of the reader in the bits of its data
Position(r) == 8 * Len(r.data) - BitsLeft(r)

\* the counters of the reader are in range and the bits of its word are the
\* bits of the data at its position
InPlace(r) ==
  /\ r.bitsAvailable \in 0..32
  /\ r.bytesAvailable \in 0..Len(r.data)
  /\ Position(r) >= 0
  /\ SubSeq(WordBits(r.word), 1, r.bitsAvailable)
       = SubSeq(AllBits(r.data), Position(r) + 1, Position(r) + r.bitsAvailable)

\* the unsigned number of the next n bits of the data, n in 1..32
NextBits(r, n) ==
  [hi |-> BitsValue(SubSeq(AllBits(r.data), Position(r) + 1, Position(r) + n - 16)),
   lo |-> BitsValue(SubSeq(AllBits(r.data),
                           IF n > 16 THEN Position(r) + n - 15 ELSE Position(r) + 1,
                           Position(r) + n))]

\* C17: readBits(n), n in 1..32, on a reader with at least n bits left, gives
\* the unsigned number of the next n bits of the data and moves the position
\* on by n bits, also when the bits are in two words
C17_ReadBitsUnsigned ==
  (/\ golomb.op = "readBits"
   /\ golomb.arg \in 1..32
   /\ InPlace(golomb.before)
   /\ BitsLeft(golomb.before) >= golomb.arg) =>
    /\ golomb.pc = "done"
    /\ golomb.out = NextBits(golomb.before, golomb.arg)
    /\ golomb.out.hi >= 0
    /\ Position(reader) = Position(golomb.before) + golomb.arg

\* the bits the reader gives from here on: the bits left of its word, then
\* the bits of the bytes it has not loaded
RemainingBits(r) ==
  SubSeq(WordBits(r.word), 1, r.bitsAvailable)
    \o AllBits(SubarrayFrom(r.data, Len(r.data) - r.bytesAvailable))

\* the counters of the reader are in range
InRange(r) == r.bitsAvailable \in 0..32 /\ r.bytesAvailable \in 0..Len(r.data)

\* the last call started with skipLZ and has ended
EndedSkipLZ ==
  golomb.op \in {"skipLZ", "skipUEG", "readUEG", "readEG"} /\ golomb.pc \in {"done", "threw"}

\* C18: skipLZ ends in every state of the reader, called on its own or by
\* skipUEG, readUEG or readEG, which go on with one skipBits or readBits; when
\* the reader has no 1 bit left to give, the call ends with an error
C18_SkipLZTerminates ==
  /\ (golomb.pc = "skipLZ") ~> (golomb.pc # "skipLZ")
  /\ []((/\ EndedSkipLZ
         /\ \A i \in 1..Len(RemainingBits(golomb.before)) :
              RemainingBits(golomb.before)[i] = 0)
          => golomb.pc = "threw")

\* skipLZ was called with bits 0 only in the word and in bytes not loaded yet:
\* it loaded them, met no 1 bit and threw
C18_Witness ==
  /\ golomb.op = "skipLZ"
  /\ golomb.pc = "threw"
  /\ InRange(golomb.before)
  /\ golomb.before.bitsAvailable > 0
  /\ golomb.before.bytesAvailable > 0
  /\ \A i \in 1..Len(RemainingBits(golomb.before)) : RemainingBits(golomb.before)[i] = 0
  /\ reader.bytesAvailable = 0


\* a call of skipBits that asked for more bits than the reader had left
SkippedBeyond ==
  /\ golomb.op = "skipBits"
  /\ golomb.pc \in {"done", "threw"}
  /\ InRange(golomb.before)
  /\ golomb.arg > BitsLeft(golomb.before)

\* C21: in every state of the reader that calls of skipBits, readBits, skipLZ,
\* skipUEG, readUEG and readEG lead to, _bitsAvailable is in 0..32 and
\* _bytesAvailable is in 0..data.byteLength, and a skipBits(count) for more
\* bits than are left ends with an error
C21_CountersInRange ==
  /\ InRange(reader)
  /\ SkippedBeyond => golomb.pc = "threw"

====
